---------------------------- MODULE Spec2Model ----------------------------
(***************************************************************************)
(* A model of genienlp/validate.py: the dialogue turn controller           *)
(* generate_with_seq2seq_model_for_dialogue, the helper replace_match,     *)
(* the batch loop of generate_with_seq2seq_model and the classification    *)
(* path, generate_with_classification_model, with its twin                 *)
(* TransformerForTokenClassification.validate.                             *)
(*                                                                         *)
(* Text.  A Python str is modelled as a sequence of symbols.  A symbol is  *)
(* an indivisible block of characters: the space " ", a span marker such   *)
(* as "<state>" (the only symbols that hold the character '<'), or a word. *)
(* Searching, stripping and replacing work on symbols exactly as the       *)
(* Python operations work on characters, for texts in which no word is a   *)
(* substring of another word.                                              *)
(***************************************************************************)
EXTENDS Integers, Sequences, FiniteSets, TLC

(***************************************************************************)
(* Bounds of the model.                                                    *)
(***************************************************************************)
MaxTurns == 3

MaxTurnsLong == 4

\* the longest text, in symbols, replace_match is called on directly
MaxLen == 5

\* the longest run of SpecStale, in turns
MaxTurnsStale == 6

\* generate_with_seq2seq_model: the most batches of a run, examples of a
\* batch, hyperparameter sets and outputs asked of the model per example
MaxBatches == 2

MaxBatch == 2

MaxSets == 2

MaxOutputs == 2

(***************************************************************************)
(* Text helpers.                                                           *)
(***************************************************************************)
SP == " "

\* the symbols that begin with the character '<'
LtSymbols == {"<knowledge>", "<state>", "<history>"}

\* the marker each compiled pattern starts with (validate.py 120-121)
state_re == "<state>"

knowledge_re == "<knowledge>"

\* words joined by single spaces, as ' '.join(ws)
RECURSIVE Sp(_)
Sp(ws) ==
    IF Len(ws) = 0 THEN <<>>
    ELSE IF Len(ws) = 1 THEN <<ws[1]>>
    ELSE <<ws[1], SP>> \o Sp(Tail(ws))

\* str.strip(): leading and trailing whitespace removed
RECURSIVE LStrip(_)
LStrip(t) == IF t # <<>> /\ t[1] = SP THEN LStrip(Tail(t)) ELSE t

RECURSIVE RStrip(_)
RStrip(t) ==
    IF t # <<>> /\ t[Len(t)] = SP THEN RStrip(SubSeq(t, 1, Len(t) - 1)) ELSE t

Strip(t) == RStrip(LStrip(t))

\* str.replace(old, new) for the empty old: new goes before every symbol
\* and after the last one
RECURSIVE Interleave(_, _)
Interleave(t, new) ==
    IF t = <<>> THEN new ELSE new \o <<t[1]>> \o Interleave(Tail(t), new)

\* str.replace(old, new) for a non-empty old: every non-overlapping
\* occurrence, scanning from the left
RECURSIVE ReplaceAll(_, _, _)
ReplaceAll(t, old, new) ==
    IF Len(t) < Len(old) THEN t
    ELSE IF SubSeq(t, 1, Len(old)) = old
         THEN new \o ReplaceAll(SubSeq(t, Len(old) + 1, Len(t)), old, new)
         ELSE <<t[1]>> \o ReplaceAll(Tail(t), old, new)

StrReplace(t, old, new) ==
    IF old = <<>> THEN Interleave(t, new) ELSE ReplaceAll(t, old, new)

\* re_pattern.search(input) for the patterns '<tag> (.*?)(?:$|<)': the
\* positions where the marker stands followed by a space
MatchStarts(input, tag) ==
    {i \in 1..(Len(input) - 1) : input[i] = tag /\ input[i + 1] = SP}

HasMatch(input, tag) == MatchStarts(input, tag) # {}

\* .group(1) of the leftmost match: the lazy capture runs from after the
\* space to the first '<' or to the end of the text
Group1(input, tag) ==
    LET i == CHOOSE m \in MatchStarts(input, tag) :
                 \A n \in MatchStarts(input, tag) : m <= n
        stops == {j \in (i + 2)..Len(input) : input[j] \in LtSymbols}
        e == IF stops = {} THEN Len(input) + 1
             ELSE CHOOSE j \in stops : \A l \in stops : j <= l
    IN  SubSeq(input, i + 2, e - 1)

\* str.replace(old, new, 1): the first occurrence only
RECURSIVE ReplaceFirst(_, _, _)
ReplaceFirst(t, old, new) ==
    IF Len(t) < Len(old) THEN t
    ELSE IF SubSeq(t, 1, Len(old)) = old
         THEN new \o SubSeq(t, Len(old) + 1, Len(t))
         ELSE <<t[1]>> \o ReplaceFirst(Tail(t), old, new)

\* replace_match replacing the first occurrence of the captured text only
replace_matchFirstOnly(input, re_pattern, replacement) ==
    LET match == Strip(Group1(input, re_pattern))
    IN  ReplaceFirst(input, match, replacement)

\* replace_match, defined when the pattern matches (it raises otherwise)
replace_match(input, re_pattern, replacement) ==
    LET match == Strip(Group1(input, re_pattern))
    IN  StrReplace(input, match, replacement)

(***************************************************************************)
(* The BiToD collaborators (validate.py 37-39), modelled by their          *)
(* contract: the API-name tables, the state codec and the Knowledge API.   *)
(* An API name is the sequence of its words ("restaurants search").        *)
(***************************************************************************)
EmptyMap == [x \in {} |-> <<>>]

Restaurants == <<"restaurants", "search">>

Hotels == <<"hotels", "booking">>

\* required_slots after the translation through API_MAP (validate.py 203-204)
required_slots ==
    [a \in {Restaurants, Hotels} |->
        IF a = Restaurants THEN <<"price", "area">> ELSE <<"price">>]

\* api_names = list(required_slots.keys()) (validate.py 205), in list order
api_names == <<Restaurants, Hotels>>

\* r_en_API_MAP.get(k, k): the canonical name of an API, k itself if unknown
r_en_API_MAP_get(k) ==
    IF k = Restaurants THEN <<"restaurants_en_US_search">>
    ELSE IF k = Hotels THEN <<"hotels_en_US_booking">>
    ELSE k

NotSpace(s) == s # SP

\* the "slot = value , slot = value" part of a span, later pairs winning
RECURSIVE ParseSlots(_)
ParseSlots(ws) ==
    IF Len(ws) >= 3 /\ ws[2] = "="
    THEN LET rest == IF Len(ws) >= 4 /\ ws[4] = ","
                     THEN ParseSlots(SubSeq(ws, 5, Len(ws)))
                     ELSE EmptyMap
         IN  [s \in {ws[1]} \cup DOMAIN rest |->
                 IF s \in DOMAIN rest THEN rest[s] ELSE ws[3]]
    ELSE EmptyMap

\* span2dict(lev, api_names): "( api ) slot = value , ..." parsed into
\* {api: {slot: value}}; an unknown API or a malformed span gives {}
span2dict(lev, names) ==
    LET ws == SelectSeq(lev, NotSpace)
        closes == {i \in 1..Len(ws) : ws[i] = ")"}
    IN  IF Len(ws) >= 1 /\ ws[1] = "(" /\ closes # {}
        THEN LET c == CHOOSE i \in closes : \A j \in closes : i <= j
                 a == SubSeq(ws, 2, c - 1)
             IN  IF \E n \in 1..Len(names) : names[n] = a
                 THEN [x \in {a} |-> ParseSlots(SubSeq(ws, c + 1, Len(ws)))]
                 ELSE EmptyMap
        ELSE EmptyMap

\* the words "slot = value , slot = value" of the slots of m listed in order
RECURSIVE SlotWords(_, _)
SlotWords(m, order) ==
    IF order = <<>> THEN <<>>
    ELSE LET rest == SlotWords(m, Tail(order))
         IN  IF order[1] \in DOMAIN m
             THEN <<order[1], "=", m[order[1]]>>
                  \o (IF rest = <<>> THEN <<>> ELSE <<",">> \o rest)
             ELSE rest

RECURSIVE ApiWords(_, _, _)
ApiWords(ds, required, names) ==
    IF names = <<>> THEN <<>>
    ELSE LET a == names[1]
             rest == ApiWords(ds, required, Tail(names))
         IN  IF a \in DOMAIN ds
             THEN <<"(">> \o a \o <<")">> \o SlotWords(ds[a], required[a]) \o rest
             ELSE rest

\* state2span(dialogue_state, required_slots): the state rendered as a span,
\* only the required slots of each API, "null" for the empty state
state2span(ds, required) ==
    LET ws == ApiWords(ds, required, api_names)
    IN  IF ws = <<>> THEN <<"null">> ELSE Sp(ws)

\* state2api(slots): the constraints of a Knowledge API call
state2api(slots) == {<<s, slots[s]>> : s \in DOMAIN slots}

\* knowledge2span(knowledge): the items of each domain rendered as a span
knowledge2span(domain, item) ==
    Sp(<<"(", domain, ")">> \o SlotWords(item, <<"name">>))

\* what api.call_api can do: raise, or return msg = [item, count]
Outcomes == {"raise", "none", "found"}

Item == [s \in {"name"} |-> "Alpha"]

Msg(outcome) ==
    IF outcome = "found" THEN <<Item, 1>>
    ELSE IF outcome = "none" THEN <<EmptyMap, 0>>
    ELSE <<0, 0>>

\* f'( {domain} ) Message = No item available.' (validate.py 270)
NoItemText(domain) ==
    Sp(<<"(", domain, ")", "Message", "=", "No", "item", "available.">>)

(***************************************************************************)
(* The state of generate_with_seq2seq_model_for_dialogue.                  *)
(*                                                                         *)
(* A local that may be read before it is bound (active_api,                *)
(* new_knowledge_text) holds <<>> while unbound and <<v>> once bound to v. *)
(* dialogue_state and first_turn are bound by the first iteration before   *)
(* any read of them (every dialogue id is a non-empty string, so line 146  *)
(* takes the new-dialogue branch on the first turn).                       *)
(*                                                                         *)
(* writes, api_calls and generated record what the run did: every Turn     *)
(* Record assignment, every Knowledge API call and every call of           *)
(* model.generate, in order, each with the number k of the turn.           *)
(*                                                                         *)
(* original_order is <<>> for None and <<the list>> when supplied; it is a *)
(* list of indices, so its keys are pairwise distinct.  output is <<>>     *)
(* until the function returns.  call and result hold the arguments and the *)
(* outcome of a direct call of replace_match (<<>> when there is none).    *)
(***************************************************************************)
VARIABLES
    pc,                      \* the function that runs and its position
    err,                     \* the exception that ended the run, "" if none
    output_predictions_only, \* the argument of that name
    original_order,          \* the argument of that name
    turn,                    \* the loop variable: <<>>, then <<the turn>>
    batch_size,              \* <<>> while unbound, then <<len(turn.example_id)>>
    example_ids, contexts, answers, predictions,
    cur_dial_id, first_turn, dialogue_state, new_state_text,
    active_api, new_knowledge_text,
    bitod_preds,
    file,                    \* bitod_preds.json: <<>> until written
    output,                  \* the GenerationOutput returned
    writes, api_calls, generated,
    call, result

vars == <<pc, err, output_predictions_only, original_order, turn, batch_size,
          example_ids, contexts, answers,
          predictions, cur_dial_id, first_turn, dialogue_state,
          new_state_text, active_api, new_knowledge_text, bitod_preds, file,
          output, writes, api_calls, generated, call, result>>

\* the values before the loop (validate.py 123-131), for a call whose
\* original_order is one of orders
InitWith(orders) ==
    /\ pc = "loop"
    /\ err = ""
    /\ output_predictions_only \in BOOLEAN
    /\ original_order \in orders
    /\ turn = <<>>
    /\ batch_size = <<>>
    /\ example_ids = <<>>
    /\ contexts = <<>>
    /\ answers = <<>>
    /\ predictions = <<>>
    /\ cur_dial_id = ""
    /\ first_turn = TRUE
    /\ dialogue_state = EmptyMap
    /\ new_state_text = <<"null">>
    /\ active_api = <<>>
    /\ new_knowledge_text = <<>>
    /\ bitod_preds = EmptyMap
    /\ file = <<>>
    /\ output = <<>>
    /\ writes = <<>>
    /\ api_calls = <<>>
    /\ generated = <<>>
    /\ call = <<>>
    /\ result = <<>>

\* a call that leaves original_order at its default, None
Init == InitWith({<<>>})

\* bitod_preds[dial_id]["turns"][key][field] = value, "turns" a
\* defaultdict(dict); str(turn_id) is one-to-one, so the key is the number
SetField(bp, dial_id, key, fld, value) ==
    LET turns == bp[dial_id].turns
        old == IF key \in DOMAIN turns THEN turns[key] ELSE EmptyMap
        rec == [f \in DOMAIN old \cup {fld} |-> IF f = fld THEN value ELSE old[f]]
    IN  [bp EXCEPT ![dial_id].turns =
            [t \in DOMAIN turns \cup {key} |-> IF t = key THEN rec ELSE turns[t]]]

\* NewDialogue with bitod_preds rebound to a dict of the new entry alone
NewDialogueAlone(bp, dial_id) ==
    [d \in {dial_id} |-> [turns |-> EmptyMap, API |-> EmptyMap]]

\* the new-dialogue branch's bitod_preds[dial_id] = {...} (validate.py 151)
NewDialogue(bp, dial_id) ==
    [d \in DOMAIN bp \cup {dial_id} |->
        IF d = dial_id THEN [turns |-> EmptyMap, API |-> EmptyMap] ELSE bp[d]]

\* MergeState with the update's mapping replacing the API's old one
MergeStateReplace(ds, state_update) ==
    [a \in DOMAIN ds \cup DOMAIN state_update |->
        IF a \in DOMAIN state_update THEN state_update[a] ELSE ds[a]]

\* the merge loop of the api branch (validate.py 224-229)
MergeState(ds, state_update) ==
    [a \in DOMAIN ds \cup DOMAIN state_update |->
        IF a \notin DOMAIN ds THEN state_update[a]
        ELSE IF a \notin DOMAIN state_update THEN ds[a]
        ELSE [s \in DOMAIN ds[a] \cup DOMAIN state_update[a] |->
                 IF s \in DOMAIN state_update[a] THEN state_update[a][s]
                 ELSE ds[a][s]]]

\* active_api after the merge loop: the last API of the update, the old
\* value when the update is empty (span2dict gives at most one API)
ActiveAfter(act, state_update) ==
    IF DOMAIN state_update = {} THEN act
    ELSE <<CHOOSE a \in DOMAIN state_update : TRUE>>

\* state_to_record (validate.py 232-233): a deep copy with translated keys
StateToRecord(ds) ==
    [c \in {r_en_API_MAP_get(a) : a \in DOMAIN ds} |->
        ds[CHOOSE a \in DOMAIN ds : r_en_API_MAP_get(a) = c]]

(***************************************************************************)
(* The branches of a turn that is not the first of its dialogue.  Each     *)
(* takes the locals L as the turn found them and gives them back as the    *)
(* branch leaves them, with input_text (<<text>> once built) and the       *)
(* exception raised ("" if none); at a raise the locals are as they are at *)
(* the raising line.                                                       *)
(***************************************************************************)
\* the entry of writes for an assignment to a field of bp: prior is <<>>
\* when the field holds nothing yet, <<the value it holds>> otherwise
Wr(bp, k, dial_id, key, fld, value) ==
    [k |-> k, dial |-> dial_id, turn |-> key, field |-> fld, value |-> value,
     prior |-> IF key \in DOMAIN bp[dial_id].turns
                  /\ fld \in DOMAIN bp[dial_id].turns[key]
               THEN <<bp[dial_id].turns[key][fld]>>
               ELSE <<>>]

\* DstBranch with the response recorded under the turn's own id
DstBranchOwnTurn(L, k, dial_id, turn_id, ctx, prev) ==
    LET L1 == [L EXCEPT
                 !.bitod_preds = SetField(@, dial_id, turn_id, "response", prev),
                 !.writes = Append(@, Wr(L.bitod_preds, k, dial_id, turn_id, "response", prev))]
    IN  IF HasMatch(ctx, state_re)
        THEN [L1 EXCEPT !.input_text =
                 <<replace_match(ctx, state_re, L.new_state_text)>>]
        ELSE [L1 EXCEPT !.err = "AttributeError"]

\* DstBranch with new_state_text set back to 'null'
DstBranchResetsText(L, k, dial_id, turn_id, ctx, prev) ==
    LET L1 == [L EXCEPT
                 !.bitod_preds = SetField(@, dial_id, turn_id - 1, "response", prev),
                 !.writes = Append(@, Wr(L.bitod_preds, k, dial_id, turn_id - 1, "response", prev)),
                 !.new_state_text = <<"null">>]
    IN  IF HasMatch(ctx, state_re)
        THEN [L1 EXCEPT !.input_text =
                 <<replace_match(ctx, state_re, L.new_state_text)>>]
        ELSE [L1 EXCEPT !.err = "AttributeError"]

\* DstBranch with the context used as it is when it has no state span
DstBranchKeepsContext(L, k, dial_id, turn_id, ctx, prev) ==
    LET L1 == [L EXCEPT
                 !.bitod_preds = SetField(@, dial_id, turn_id - 1, "response", prev),
                 !.writes = Append(@, Wr(L.bitod_preds, k, dial_id, turn_id - 1, "response", prev))]
    IN  IF HasMatch(ctx, state_re)
        THEN [L1 EXCEPT !.input_text =
                 <<replace_match(ctx, state_re, L.new_state_text)>>]
        ELSE [L1 EXCEPT !.input_text = <<ctx>>]

\* train_target == 'dst' (validate.py 208-214)
DstBranch(L, k, dial_id, turn_id, ctx, prev) ==
    LET L1 == [L EXCEPT
                 !.bitod_preds = SetField(@, dial_id, turn_id - 1, "response", prev),
                 !.writes = Append(@, Wr(L.bitod_preds, k, dial_id, turn_id - 1, "response", prev))]
    IN  IF HasMatch(ctx, state_re)
        THEN [L1 EXCEPT !.input_text =
                 <<replace_match(ctx, state_re, L.new_state_text)>>]
        ELSE [L1 EXCEPT !.err = "AttributeError"]

\* ApiBranch with the snapshot saved under the "api" field
ApiBranchSavesAsApi(L, k, dial_id, turn_id, ctx, prev) ==
    LET lev == Strip(prev[1])
        state_update == span2dict(lev, api_names)
        ds == MergeState(L.dialogue_state, state_update)
        state_to_record == StateToRecord(ds)
        nst == state2span(ds, required_slots)
        L1 == [L EXCEPT
                 !.active_api = ActiveAfter(@, state_update),
                 !.dialogue_state = ds,
                 !.bitod_preds = SetField(@, dial_id, turn_id, "api", state_to_record),
                 !.writes = Append(@, Wr(L.bitod_preds, k, dial_id, turn_id, "api", state_to_record)),
                 !.new_state_text = nst]
    IN  IF HasMatch(ctx, state_re)
        THEN [L1 EXCEPT !.input_text = <<replace_match(ctx, state_re, nst)>>]
        ELSE [L1 EXCEPT !.err = "AttributeError"]

\* ApiBranch with the snapshot taken without a deep copy: the record shares
\* the per-API mappings of dialogue_state, so the update of a known API
\* shows in every state field recorded earlier in the dialogue
ApiBranchNoDeepCopy(L, k, dial_id, turn_id, ctx, prev) ==
    LET lev == Strip(prev[1])
        state_update == span2dict(lev, api_names)
        ds == MergeState(L.dialogue_state, state_update)
        state_to_record == StateToRecord(ds)
        nst == state2span(ds, required_slots)
        shared == DOMAIN state_update \cap DOMAIN L.dialogue_state
        turns == L.bitod_preds[dial_id].turns
        Alias(m) ==
            [c \in DOMAIN m |->
                IF \E a \in shared : r_en_API_MAP_get(a) = c
                THEN ds[CHOOSE a \in shared : r_en_API_MAP_get(a) = c]
                ELSE m[c]]
        aliased == [L.bitod_preds EXCEPT ![dial_id].turns =
                       [t \in DOMAIN turns |->
                           [f \in DOMAIN turns[t] |->
                               IF f = "state" THEN Alias(turns[t][f])
                               ELSE turns[t][f]]]]
        L1 == [L EXCEPT
                 !.active_api = ActiveAfter(@, state_update),
                 !.dialogue_state = ds,
                 !.bitod_preds = SetField(aliased, dial_id, turn_id, "state", state_to_record),
                 !.writes = Append(@, Wr(L.bitod_preds, k, dial_id, turn_id, "state", state_to_record)),
                 !.new_state_text = nst]
    IN  IF HasMatch(ctx, state_re)
        THEN [L1 EXCEPT !.input_text = <<replace_match(ctx, state_re, nst)>>]
        ELSE [L1 EXCEPT !.err = "AttributeError"]

\* ApiBranch with new_state_text left as it was, and spliced as it was
ApiBranchStaleText(L, k, dial_id, turn_id, ctx, prev) ==
    LET lev == Strip(prev[1])
        state_update == span2dict(lev, api_names)
        ds == MergeState(L.dialogue_state, state_update)
        state_to_record == StateToRecord(ds)
        L1 == [L EXCEPT
                 !.active_api = ActiveAfter(@, state_update),
                 !.dialogue_state = ds,
                 !.bitod_preds = SetField(@, dial_id, turn_id, "state", state_to_record),
                 !.writes = Append(@, Wr(L.bitod_preds, k, dial_id, turn_id, "state", state_to_record))]
    IN  IF HasMatch(ctx, state_re)
        THEN [L1 EXCEPT !.input_text =
                 <<replace_match(ctx, state_re, L.new_state_text)>>]
        ELSE [L1 EXCEPT !.err = "AttributeError"]

\* train_target == 'api' (validate.py 220-240)
ApiBranch(L, k, dial_id, turn_id, ctx, prev) ==
    LET lev == Strip(prev[1])
        state_update == span2dict(lev, api_names)
        ds == MergeState(L.dialogue_state, state_update)
        state_to_record == StateToRecord(ds)
        nst == state2span(ds, required_slots)
        L1 == [L EXCEPT
                 !.active_api = ActiveAfter(@, state_update),
                 !.dialogue_state = ds,
                 !.bitod_preds = SetField(@, dial_id, turn_id, "state", state_to_record),
                 !.writes = Append(@, Wr(L.bitod_preds, k, dial_id, turn_id, "state", state_to_record)),
                 !.new_state_text = nst]
    IN  IF HasMatch(ctx, state_re)
        THEN [L1 EXCEPT !.input_text = <<replace_match(ctx, state_re, nst)>>]
        ELSE [L1 EXCEPT !.err = "AttributeError"]

\* KnowledgeText with the last word of the API name taken as the domain
KnowledgeTextLastWord(api_name, msg) ==
    LET domain == api_name[Len(api_name)]
    IN  IF msg[2] <= 0 THEN NoItemText(domain)
        ELSE knowledge2span(domain, msg[1])

\* KnowledgeText with a count of one taken as no item
KnowledgeTextNoItemAtOne(api_name, msg) ==
    LET domain == api_name[1]
    IN  IF msg[2] <= 1 THEN NoItemText(domain)
        ELSE knowledge2span(domain, msg[1])

\* the knowledge text of an API result (validate.py 264-274)
KnowledgeText(api_name, msg) ==
    LET domain == api_name[1]
    IN  IF msg[2] <= 0 THEN NoItemText(domain)
        ELSE knowledge2span(domain, msg[1])

\* do_api_call == 'yes' (validate.py 250-281)
YesBranch(L, k, dial_id, turn_id, ctx, outcome) ==
    IF L.active_api = <<>> THEN [L EXCEPT !.err = "UnboundLocalError"]
    ELSE
    LET api_name == L.active_api[1]
        called == api_name \in DOMAIN L.dialogue_state
        constraints == state2api(L.dialogue_state[api_name])
        L1 == IF called
              THEN [L EXCEPT
                      !.api_calls = Append(@,
                          [k |-> k, name |-> r_en_API_MAP_get(api_name),
                           constraints |-> <<constraints>>, outcome |-> outcome]),
                      !.new_knowledge_text =
                          <<KnowledgeText(api_name, Msg(outcome))>>]
              ELSE L
    IN  IF L1.new_knowledge_text = <<>>
        THEN [L1 EXCEPT !.err = "UnboundLocalError"]
        ELSE
        LET nkt == L1.new_knowledge_text[1]
            L2 == [L1 EXCEPT
                     !.bitod_preds = SetField(@, dial_id, turn_id, "api", nkt),
                     !.writes = Append(@, Wr(L.bitod_preds, k, dial_id, turn_id, "api", nkt))]
        IN  IF ~HasMatch(ctx, knowledge_re)
            THEN [L2 EXCEPT !.err = "AttributeError"]
            ELSE LET t1 == replace_match(ctx, knowledge_re, nkt)
                 IN  IF ~HasMatch(t1, state_re)
                     THEN [L2 EXCEPT !.err = "AttributeError"]
                     ELSE [L2 EXCEPT !.input_text =
                              <<replace_match(t1, state_re, L.new_state_text)>>]

\* ResponseBranch with the decision checked before the api field is set
ResponseBranchCheckFirst(L, k, dial_id, turn_id, ctx, prev, outcome) ==
    LET L1 == [L EXCEPT
                 !.bitod_preds = SetField(@, dial_id, turn_id, "api", <<>>),
                 !.writes = Append(@, Wr(L.bitod_preds, k, dial_id, turn_id, "api", <<>>))]
        do_api_call == Strip(prev[1])
    IN  IF do_api_call = <<"no">> THEN [L1 EXCEPT !.input_text = <<ctx>>]
        ELSE IF do_api_call = <<"yes">>
             THEN YesBranch(L1, k, dial_id, turn_id, ctx, outcome)
             ELSE [L EXCEPT !.err = "ValueError"]

\* ResponseBranch with the state span rewritten when the decision is "no"
ResponseBranchNoRewrites(L, k, dial_id, turn_id, ctx, prev, outcome) ==
    LET L1 == [L EXCEPT
                 !.bitod_preds = SetField(@, dial_id, turn_id, "api", <<>>),
                 !.writes = Append(@, Wr(L.bitod_preds, k, dial_id, turn_id, "api", <<>>))]
        do_api_call == Strip(prev[1])
    IN  IF do_api_call = <<"no">>
        THEN [L1 EXCEPT !.input_text =
                 <<replace_match(ctx, state_re, L.new_state_text)>>]
        ELSE IF do_api_call = <<"yes">>
             THEN YesBranch(L1, k, dial_id, turn_id, ctx, outcome)
             ELSE [L1 EXCEPT !.err = "ValueError"]

\* train_target == 'response' (validate.py 242-284)
ResponseBranch(L, k, dial_id, turn_id, ctx, prev, outcome) ==
    LET L1 == [L EXCEPT
                 !.bitod_preds = SetField(@, dial_id, turn_id, "api", <<>>),
                 !.writes = Append(@, Wr(L.bitod_preds, k, dial_id, turn_id, "api", <<>>))]
        do_api_call == Strip(prev[1])
    IN  IF do_api_call = <<"no">> THEN [L1 EXCEPT !.input_text = <<ctx>>]
        ELSE IF do_api_call = <<"yes">>
             THEN YesBranch(L1, k, dial_id, turn_id, ctx, outcome)
             ELSE [L1 EXCEPT !.err = "ValueError"]

\* Dispatch with an unknown train_target handled as dst
DispatchDefaultDst(L, k, id, ctx, prev, outcome) ==
    IF id.train_target = "api"
    THEN ApiBranch(L, k, id.dial_id, id.turn_id, ctx, prev)
    ELSE IF id.train_target = "response"
    THEN ResponseBranch(L, k, id.dial_id, id.turn_id, ctx, prev, outcome)
    ELSE DstBranch(L, k, id.dial_id, id.turn_id, ctx, prev)

\* the dispatch on train_target (validate.py 208-287)
Dispatch(L, k, id, ctx, prev, outcome) ==
    IF id.train_target = "dst"
    THEN DstBranch(L, k, id.dial_id, id.turn_id, ctx, prev)
    ELSE IF id.train_target = "api"
    THEN ApiBranch(L, k, id.dial_id, id.turn_id, ctx, prev)
    ELSE IF id.train_target = "response"
    THEN ResponseBranch(L, k, id.dial_id, id.turn_id, ctx, prev, outcome)
    ELSE [L EXCEPT !.err = "ValueError"]

(***************************************************************************)
(* One iteration of the loop (validate.py 135-331), for the turn the       *)
(* iterator yields: its example id, its decoded context and gold answer,   *)
(* what the Knowledge API does if it is called, and the prediction the     *)
(* model generates.  When the body raises, the run ends with the state as  *)
(* it is at the raise.  A batch of one example is written as that example. *)
(***************************************************************************)
\* Locals with dialogue_state kept when a new dialogue begins
LocalsKeepState(new_dialogue, dial_id) ==
    [dialogue_state |-> dialogue_state,
     new_state_text |-> new_state_text,
     active_api |-> active_api,
     new_knowledge_text |-> new_knowledge_text,
     bitod_preds |-> IF new_dialogue THEN NewDialogue(bitod_preds, dial_id)
                     ELSE bitod_preds,
     writes |-> writes,
     api_calls |-> api_calls,
     input_text |-> <<>>,
     err |-> ""]

\* the locals the dispatch starts from, after the new-dialogue branch
\* (validate.py 146-153)
Locals(new_dialogue, dial_id) ==
    [dialogue_state |-> IF new_dialogue THEN EmptyMap ELSE dialogue_state,
     new_state_text |-> new_state_text,
     active_api |-> active_api,
     new_knowledge_text |-> new_knowledge_text,
     bitod_preds |-> IF new_dialogue THEN NewDialogue(bitod_preds, dial_id)
                     ELSE bitod_preds,
     writes |-> writes,
     api_calls |-> api_calls,
     input_text |-> <<>>,
     err |-> ""]

\* whether the turn takes the new-dialogue branch (validate.py 146)
IsNewDialogue(cur, dial_id) == cur # dial_id

\* whether the dispatch on train_target is skipped (validate.py 185)
SkipsDispatch(first) == first

\* Turn with every sequence the model returns kept in the turn's entry of
\* predictions (two of them), not the first one alone
TurnKeepsAllOutputs(id, ctx, answer, outcome, pred) ==
    /\ pc = "loop"
    /\ LET k == Len(example_ids) + 1
           new_dialogue == IsNewDialogue(cur_dial_id, id.dial_id)
           L0 == Locals(new_dialogue, id.dial_id)
           body == IF SkipsDispatch(new_dialogue)
                   THEN [L0 EXCEPT !.input_text = <<ctx>>]
                   ELSE Dispatch(L0, k, id, ctx,
                                 predictions[Len(predictions)], outcome)
       IN  \E R \in {body} :
           /\ turn' = <<[example_id |-> id, context |-> ctx, answer |-> answer]>>
           /\ batch_size' = <<1>>
           /\ example_ids' = Append(example_ids, id)
           /\ cur_dial_id' = id.dial_id
           /\ first_turn' = new_dialogue
           /\ contexts' = Append(contexts, ctx)
           /\ answers' = IF output_predictions_only THEN answers
                         ELSE Append(answers, answer)
           /\ dialogue_state' = R.dialogue_state
           /\ new_state_text' = R.new_state_text
           /\ active_api' = R.active_api
           /\ new_knowledge_text' = R.new_knowledge_text
           /\ bitod_preds' = R.bitod_preds
           /\ writes' = R.writes
           /\ api_calls' = R.api_calls
           /\ IF R.err = ""
              THEN /\ generated' = Append(generated,
                                          [k |-> k, text |-> R.input_text[1]])
                   /\ predictions' = Append(predictions, <<pred, pred>>)
                   /\ pc' = "loop"
                   /\ err' = ""
              ELSE /\ generated' = generated
                   /\ predictions' = predictions
                   /\ pc' = "raised"
                   /\ err' = R.err
    /\ UNCHANGED <<output_predictions_only, original_order, file, output,
                   call, result>>

Turn(id, ctx, answer, outcome, pred) ==
    /\ pc = "loop"
    /\ LET k == Len(example_ids) + 1
           new_dialogue == IsNewDialogue(cur_dial_id, id.dial_id)
           L0 == Locals(new_dialogue, id.dial_id)
           body == IF SkipsDispatch(new_dialogue)
                   THEN [L0 EXCEPT !.input_text = <<ctx>>]
                   ELSE Dispatch(L0, k, id, ctx,
                                 predictions[Len(predictions)], outcome)
       IN  \E R \in {body} :
           /\ turn' = <<[example_id |-> id, context |-> ctx, answer |-> answer]>>
           /\ batch_size' = <<1>>
           /\ example_ids' = Append(example_ids, id)
           /\ cur_dial_id' = id.dial_id
           /\ first_turn' = new_dialogue
           /\ contexts' = Append(contexts, ctx)
           /\ answers' = IF output_predictions_only THEN answers
                         ELSE Append(answers, answer)
           /\ dialogue_state' = R.dialogue_state
           /\ new_state_text' = R.new_state_text
           /\ active_api' = R.active_api
           /\ new_knowledge_text' = R.new_knowledge_text
           /\ bitod_preds' = R.bitod_preds
           /\ writes' = R.writes
           /\ api_calls' = R.api_calls
           /\ IF R.err = ""
              THEN /\ generated' = Append(generated,
                                          [k |-> k, text |-> R.input_text[1]])
                   /\ predictions' = Append(predictions, <<pred>>)
                   /\ pc' = "loop"
                   /\ err' = ""
              ELSE /\ generated' = generated
                   /\ predictions' = predictions
                   /\ pc' = "raised"
                   /\ err' = R.err
    /\ UNCHANGED <<output_predictions_only, original_order, file, output,
                   call, result>>

\* AssertBatchSize with the assertion placed after example_ids += ...
AssertBatchSizeLate(batch) ==
    /\ pc = "loop"
    /\ Len(batch) # 1
    /\ turn' = <<[example_id |-> [i \in 1..Len(batch) |-> batch[i].example_id],
                  context |-> [i \in 1..Len(batch) |-> batch[i].context],
                  answer |-> [i \in 1..Len(batch) |-> batch[i].answer]]>>
    /\ batch_size' = <<Len(batch)>>
    /\ example_ids' =
           example_ids \o [i \in 1..Len(batch) |-> batch[i].example_id]
    /\ pc' = "raised"
    /\ err' = "AssertionError"
    /\ UNCHANGED <<output_predictions_only, original_order,
                   contexts, answers, predictions, cur_dial_id, first_turn,
                   dialogue_state, new_state_text, active_api,
                   new_knowledge_text, bitod_preds, file, output, writes,
                   api_calls, generated, call, result>>

\* the iterator yields a batch that does not hold exactly one example: the
\* assertion fails (validate.py 135-137, assertions enabled).  The batch is
\* a sequence of examples; turn holds the lists of its ids, contexts and
\* answers.
AssertBatchSize(batch) ==
    /\ pc = "loop"
    /\ Len(batch) # 1
    /\ turn' = <<[example_id |-> [i \in 1..Len(batch) |-> batch[i].example_id],
                  context |-> [i \in 1..Len(batch) |-> batch[i].context],
                  answer |-> [i \in 1..Len(batch) |-> batch[i].answer]]>>
    /\ batch_size' = <<Len(batch)>>
    /\ pc' = "raised"
    /\ err' = "AssertionError"
    /\ UNCHANGED <<output_predictions_only, original_order, example_ids,
                   contexts, answers, predictions, cur_dial_id, first_turn,
                   dialogue_state, new_state_text, active_api,
                   new_knowledge_text, bitod_preds, file, output, writes,
                   api_calls, generated, call, result>>

Min(S) == CHOOSE x \in S : \A y \in S : x <= y

\* list(zip(a, b, c, d, e)): as many tuples as the shortest list has entries
Zip(a, b, c, d, e) ==
    [i \in 1..Min({Len(a), Len(b), Len(c), Len(d), Len(e)}) |->
        <<a[i], b[i], c[i], d[i], e[i]>>]

\* sorted(rows): ascending tuples; the first components are pairwise
\* distinct, so no comparison goes beyond them
RECURSIVE Sorted(_)
Sorted(rows) ==
    IF rows = <<>> THEN <<>>
    ELSE LET m == CHOOSE i \in 1..Len(rows) :
                      \A j \in 1..Len(rows) : rows[i][1] <= rows[j][1]
         IN  <<rows[m]>>
             \o Sorted(SubSeq(rows, 1, m - 1) \o SubSeq(rows, m + 1, Len(rows)))

\* list(a) for the c-th of the tuples zip(*rows) gives
Column(rows, c) == [i \in 1..Len(rows) |-> rows[i][c]]

\* the GenerationOutput built at validate.py 343-349
Output(ids, preds, ans, ctxs) ==
    IF output_predictions_only
    THEN [loss |-> "None", predictions |-> preds]
    ELSE [loss |-> "None", example_ids |-> ids, predictions |-> preds,
          answers |-> ans, contexts |-> ctxs]

\* the iterator is exhausted (validate.py 333-351): bitod_preds.json is
\* written, the lists are sorted by original_order if it is supplied, and
\* the function returns.  Unpacking the sorted columns into five names
\* raises ValueError when zip(*sorted(...)) has no column, that is when
\* one of the zipped lists is empty.
Finish ==
    /\ pc = "loop"
    /\ file' = <<bitod_preds>>
    /\ IF original_order = <<>>
       THEN /\ output' = <<Output(example_ids, predictions, answers, contexts)>>
            /\ pc' = "returned"
            /\ UNCHANGED <<err, original_order, example_ids, predictions,
                           answers, contexts>>
       ELSE \E rows \in {Sorted(Zip(original_order[1], example_ids,
                                     predictions, answers, contexts))} :
            IF rows = <<>>
            THEN /\ pc' = "raised"
                 /\ err' = "ValueError"
                 /\ UNCHANGED <<output, original_order, example_ids,
                                predictions, answers, contexts>>
            ELSE /\ original_order' = <<Column(rows, 1)>>
                 /\ example_ids' = Column(rows, 2)
                 /\ predictions' = Column(rows, 3)
                 /\ answers' = Column(rows, 4)
                 /\ contexts' = Column(rows, 5)
                 /\ output' = <<Output(Column(rows, 2), Column(rows, 3),
                                       Column(rows, 4), Column(rows, 5))>>
                 /\ pc' = "returned"
                 /\ UNCHANGED err
    /\ UNCHANGED <<output_predictions_only, turn, batch_size, cur_dial_id,
                   first_turn, dialogue_state, new_state_text, active_api,
                   new_knowledge_text, bitod_preds, writes, api_calls,
                   generated, call, result>>

(***************************************************************************)
(* The inputs the specifications draw from.                                *)
(***************************************************************************)
Yes == <<"yes">>

No == <<"no">>

Maybe == <<"maybe">>

SpanCheap == Sp(<<"(", "restaurants", "search", ")", "price", "=", "cheap">>)

SpanHigh == Sp(<<"(", "restaurants", "search", ")", "price", "=", "high">>)

SpanArea == Sp(<<"(", "restaurants", "search", ")", "area", "=", "north">>)

SpanHotel == Sp(<<"(", "hotels", "booking", ")", "price", "=", "cheap">>)

Gold == <<"gold">>

\* a context whose two spans hold different texts
CtxStd == Sp(<<"<knowledge>", "none", "<state>", "null", "<history>", "hi">>)

\* a context whose two spans hold the same text
CtxBothNull ==
    Sp(<<"<knowledge>", "null", "<state>", "null", "<history>", "hi">>)

\* a context whose state text occurs again outside the span
CtxEcho == Sp(<<"<knowledge>", "none", "<state>", "null", "<history>", "null">>)

CtxNoKnowledge == Sp(<<"<state>", "null", "<history>", "hi">>)

CtxNoState == Sp(<<"<knowledge>", "none", "<history>", "hi">>)

\* a context whose knowledge span is empty
CtxEmptyKnowledge == Sp(<<"<knowledge>", "<state>", "null", "<history>", "hi">>)

Ids(dials, turn_ids, targets) ==
    [task : {"bitod"}, dial_id : dials, turn_id : turn_ids,
     train_target : targets]

(***************************************************************************)
(* Spec: the control flow of the loop, over two dialogues and every        *)
(* train_target, valid or not.                                             *)
(***************************************************************************)
Next ==
    \/ /\ Len(example_ids) < MaxTurns
       /\ \E id \in Ids({"d1", "d2"}, {1}, {"dst", "api", "response", "nlg"}),
             outcome \in {"raise", "found"},
             pred \in {Yes, Maybe, SpanCheap} :
             Turn(id, CtxStd, Gold, outcome, pred)
    \/ Finish

Spec == Init /\ [][Next]_vars

(***************************************************************************)
(* SpecMerge: api turns over every kind of state update (a new API, a new  *)
(* slot of a known API, a known slot, two slots at once, no API at all).   *)
(***************************************************************************)
SpanBoth ==
    Sp(<<"(", "restaurants", "search", ")", "price", "=", "high", ",",
         "area", "=", "north">>)

NextMerge ==
    \/ /\ Len(example_ids) < MaxTurns
       /\ \E id \in Ids({"d1", "d2"}, {1}, {"api"}),
             pred \in {SpanCheap, SpanHigh, SpanArea, SpanHotel, SpanBoth, No} :
             Turn(id, CtxStd, Gold, "found", pred)
    \/ Finish

SpecMerge == Init /\ [][NextMerge]_vars

(***************************************************************************)
(* SpecApiFailure: one dialogue whose Knowledge API may fail, over         *)
(* contexts with and without a knowledge span.                             *)
(***************************************************************************)
NextApiFailure ==
    \/ /\ Len(example_ids) < MaxTurnsLong
       /\ \E id \in Ids({"d1"}, {1}, {"api", "response"}),
             ctx \in {CtxStd, CtxNoKnowledge, CtxEmptyKnowledge},
             outcome \in {"raise", "found"},
             pred \in {Yes, SpanCheap} :
             Turn(id, ctx, Gold, outcome, pred)
    \/ Finish

SpecApiFailure == Init /\ [][NextApiFailure]_vars

(***************************************************************************)
(* SpecSplice: one dialogue over contexts of every shape: spans with       *)
(* different texts, with the same text, with a text that occurs again      *)
(* outside the span, and with a span missing.                              *)
(***************************************************************************)
NextSplice ==
    \/ /\ Len(example_ids) < MaxTurns
       /\ \E id \in Ids({"d1"}, {1}, {"api", "response"}),
             ctx \in {CtxStd, CtxBothNull, CtxEcho, CtxNoState},
             outcome \in {"none", "found"},
             pred \in {Yes, SpanCheap} :
             Turn(id, ctx, Gold, outcome, pred)
    \/ Finish

SpecSplice == Init /\ [][NextSplice]_vars

(***************************************************************************)
(* SpecRecords: two dialogues, two turn ids and every valid train_target,  *)
(* so that two turns may address the same Turn Record.                     *)
(***************************************************************************)
NextRecords ==
    \/ /\ Len(example_ids) < MaxTurns
       /\ \E id \in Ids({"d1", "d2"}, {1, 2}, {"dst", "api", "response"}),
             pred \in {Yes, SpanCheap} :
             Turn(id, CtxStd, Gold, "found", pred)
    \/ Finish

SpecRecords == Init /\ [][NextRecords]_vars

(***************************************************************************)
(* SpecReappear: two dialogues whose turns may interleave, the model       *)
(* always predicting the same text, so that a repeated turn rewrites a     *)
(* field with the value it already holds.                                  *)
(***************************************************************************)
NextReappear ==
    \/ /\ Len(example_ids) < MaxTurnsLong
       /\ \E id \in Ids({"d1", "d2"}, {1, 2}, {"dst", "response"}) :
             Turn(id, CtxStd, Gold, "found", No)
    \/ Finish

SpecReappear == Init /\ [][NextReappear]_vars

(***************************************************************************)
(* SpecRun: whole runs over two dialogues, with original_order supplied or *)
(* not, that end at the end of the input or at any of the fatal errors of  *)
(* the loop: a batch of the wrong size, an invalid train_target, a         *)
(* decision that is neither yes nor no, a context without a state span.    *)
(***************************************************************************)
\* original_order None, the empty list, or a list of two indices
RunOrders == {<<>>, << <<>> >>, << <<2, 1>> >>}

InitRun == InitWith(RunOrders)

Example(id, ctx, answer) == [example_id |-> id, context |-> ctx, answer |-> answer]

\* the batches of no example and of two examples
BadBatches ==
    {<<>>} \cup
    {<<Example(a, CtxStd, Gold), Example(b, CtxStd, Gold)>> :
        a \in Ids({"d1"}, {1}, {"dst"}), b \in Ids({"d1"}, {2}, {"dst"})}

\* the turns of SpecRun: any turn of dialogue d1, the context without a
\* state span going to dst turns only, and the plain dst turn of dialogue d2
RunTurns ==
    {t \in [id : Ids({"d1", "d2"}, {1}, {"dst", "response", "nlg"}),
            ctx : {CtxStd, CtxNoState}, pred : {No, Maybe}] :
        /\ t.ctx = CtxNoState => t.id.train_target = "dst"
        /\ t.id.dial_id = "d2" =>
               t.id.train_target = "dst" /\ t.ctx = CtxStd /\ t.pred = No}

NextRun ==
    \/ /\ Len(example_ids) < MaxTurns
       /\ \E t \in RunTurns : Turn(t.id, t.ctx, Gold, "found", t.pred)
    \/ /\ Len(example_ids) < MaxTurns
       /\ \E batch \in BadBatches : AssertBatchSize(batch)
    \/ Finish

SpecRun == InitRun /\ [][NextRun]_vars

(***************************************************************************)
(* SpecOrder: runs of one dialogue whose examples differ in id, answer and *)
(* prediction, with original_order None or any list of at most MaxTurns    *)
(* distinct indices, as long as the run or not.                            *)
(***************************************************************************)
\* the lists of n distinct indices
Perms(n) == {f \in [1..n -> 1..n] : \A i, j \in 1..n : i # j => f[i] # f[j]}

Orders == {<<>>} \cup {<<o>> : o \in UNION {Perms(n) : n \in 0..MaxTurns}}

InitOrder == InitWith(Orders)

Silver == <<"silver">>

NextOrder ==
    \/ /\ Len(example_ids) < MaxTurns
       /\ \E id \in Ids({"d1"}, {1, 2}, {"dst"}),
             answer \in {Gold, Silver},
             pred \in {Yes, No} :
             Turn(id, CtxStd, answer, "found", pred)
    \/ Finish

SpecOrder == InitOrder /\ [][NextOrder]_vars

(***************************************************************************)
(* SpecReplace: replace_match called directly on every text of at most     *)
(* MaxLen symbols, with the empty text, new texts and the captured text    *)
(* itself as replacement.                                                  *)
(***************************************************************************)
\* the span marker, another marker, the space and a word
Symbols == {"<state>", "<history>", SP, "b"}

Texts == UNION {[1..n -> Symbols] : n \in 0..MaxLen}

\* a replacement none of whose words occurs in a text
IsNew(r) == r # <<>> /\ r[1] = "x"

Replacements(t, tag) ==
    {<<>>, <<"x">>, <<"x", SP, "y">>}
        \cup (IF HasMatch(t, tag) THEN {Strip(Group1(t, tag))} ELSE {})

Calls ==
    UNION {{[input |-> t, re_pattern |-> state_re, replacement |-> r] :
               r \in Replacements(t, state_re)} : t \in Texts}

InitReplace ==
    /\ pc = "call"
    /\ err = ""
    /\ output_predictions_only = FALSE
    /\ original_order = <<>>
    /\ turn = <<>>
    /\ batch_size = <<>>
    /\ example_ids = <<>>
    /\ contexts = <<>>
    /\ answers = <<>>
    /\ predictions = <<>>
    /\ cur_dial_id = ""
    /\ first_turn = TRUE
    /\ dialogue_state = EmptyMap
    /\ new_state_text = <<"null">>
    /\ active_api = <<>>
    /\ new_knowledge_text = <<>>
    /\ bitod_preds = EmptyMap
    /\ file = <<>>
    /\ output = <<>>
    /\ writes = <<>>
    /\ api_calls = <<>>
    /\ generated = <<>>
    /\ call \in {<<c>> : c \in Calls}
    /\ result = <<>>

\* the call returns its value, or raises AttributeError when the pattern
\* does not match: search gives None, which has no group (validate.py 92)
ReplaceMatch ==
    /\ pc = "call"
    /\ IF HasMatch(call[1].input, call[1].re_pattern)
       THEN /\ result' = <<replace_match(call[1].input, call[1].re_pattern,
                                         call[1].replacement)>>
            /\ pc' = "returned"
            /\ err' = ""
       ELSE /\ result' = <<>>
            /\ pc' = "raised"
            /\ err' = "AttributeError"
    /\ UNCHANGED <<output_predictions_only, original_order, turn, batch_size,
                   example_ids, contexts, answers, predictions, cur_dial_id,
                   first_turn, dialogue_state, new_state_text, active_api,
                   new_knowledge_text, bitod_preds, file, output, writes,
                   api_calls, generated, call>>

NextReplace == ReplaceMatch

SpecReplace == InitReplace /\ [][NextReplace]_vars

(***************************************************************************)
(* SpecNoSpan: one dialogue over contexts that hold both spans, no state   *)
(* span, or no knowledge span, for every valid train_target.               *)
(***************************************************************************)
NextNoSpan ==
    \/ /\ Len(example_ids) < MaxTurns
       /\ \E id \in Ids({"d1"}, {1}, {"dst", "api", "response"}),
             ctx \in {CtxStd, CtxNoState, CtxNoKnowledge},
             pred \in {Yes, SpanCheap} :
             Turn(id, ctx, Gold, "found", pred)
    \/ Finish

SpecNoSpan == Init /\ [][NextNoSpan]_vars

(***************************************************************************)
(* SpecFrame: two dialogues over every valid train_target, the decisions   *)
(* "yes" and "no", and a Knowledge API that answers or fails.              *)
(***************************************************************************)
NextFrame ==
    \/ /\ Len(example_ids) < MaxTurns
       /\ \E id \in Ids({"d1", "d2"}, {1}, {"dst", "api", "response"}),
             outcome \in {"raise", "found"},
             pred \in {Yes, No, SpanCheap} :
             Turn(id, CtxStd, Gold, outcome, pred)
    \/ Finish

SpecFrame == Init /\ [][NextFrame]_vars

(***************************************************************************)
(* SpecCanon: dialogues whose turns arrive contiguously in the canonical   *)
(* order dst, api, response, dst, ...; the three turns of one exchange     *)
(* carry the same turn id, so that the dst turn of the next exchange       *)
(* records the response under the id of the exchange it answers.  A        *)
(* dialogue may stop after any turn.  The contexts hold a state span with  *)
(* a text or an empty state span.                                          *)
(***************************************************************************)
\* a context whose state span is empty
CtxEmptyState == Sp(<<"<knowledge>", "none", "<state>", "<history>", "hi">>)

Reply == <<"hello">>

\* the dialogues of the input, in the order they arrive
Dialogues == <<"d1", "d2">>

\* the example id that follows id in its dialogue
NextInDialogue(id) ==
    IF id.train_target = "dst" THEN [id EXCEPT !.train_target = "api"]
    ELSE IF id.train_target = "api" THEN [id EXCEPT !.train_target = "response"]
    ELSE [id EXCEPT !.train_target = "dst", !.turn_id = @ + 1]

\* the first example id of the n-th dialogue
FirstOf(n) ==
    [task |-> "bitod", dial_id |-> Dialogues[n], turn_id |-> 1,
     train_target |-> "dst"]

\* the example ids the iterator may yield after the ids yielded so far
CanonIds(ids) ==
    IF ids = <<>> THEN {FirstOf(1)}
    ELSE {NextInDialogue(ids[Len(ids)])}
         \cup {FirstOf(n + 1) : n \in {m \in 1..(Len(Dialogues) - 1) :
                                          Dialogues[m] = ids[Len(ids)].dial_id}}

\* the turns the iterator may yield next: the model predicts a state span
\* in a dst turn, a decision in an api turn and a reply in a response turn
CanonTurns(ids, ctxs) ==
    {t \in [id : CanonIds(ids), ctx : ctxs, outcome : {"found", "none"},
            pred : {SpanCheap, SpanArea, Yes, No, Reply}] :
        /\ t.id.train_target = "dst" => t.pred \in {SpanCheap, SpanArea}
        /\ t.id.train_target = "api" => t.pred \in {Yes, No}
        /\ t.id.train_target = "response" => t.pred = Reply
        /\ t.outcome = "none" => t.id.train_target = "response"
        /\ t.id = FirstOf(1) => t.ctx = CtxStd}

NextCanon ==
    \/ /\ Len(example_ids) < MaxTurnsLong
       /\ \E t \in CanonTurns(example_ids, {CtxStd, CtxEmptyState}) :
             Turn(t.id, t.ctx, Gold, t.outcome, t.pred)
    \/ Finish

SpecCanon == Init /\ [][NextCanon]_vars

(***************************************************************************)
(* SpecSnapshot: the api turns of one dialogue, under three turn ids, over *)
(* updates that add an API, add a slot and overwrite a slot.               *)
(***************************************************************************)
NextSnapshot ==
    \/ /\ Len(example_ids) < MaxTurns
       /\ \E id \in Ids({"d1"}, {1, 2, 3}, {"api"}),
             pred \in {SpanCheap, SpanHigh, SpanArea, SpanHotel} :
             Turn(id, CtxStd, Gold, "found", pred)
    \/ Finish

SpecSnapshot == Init /\ [][NextSnapshot]_vars

(***************************************************************************)
(* SpecStale: two dialogues in the canonical order, every decision "yes",  *)
(* the model predicting in a dst turn a state span or a text that is no    *)
(* span, so that the api turn that follows may find nothing to merge.      *)
(***************************************************************************)
StaleTurns(ids) ==
    {t \in [id : CanonIds(ids), pred : {SpanCheap, Maybe, Yes, Reply}] :
        /\ t.id.train_target = "dst" => t.pred \in {SpanCheap, Maybe}
        /\ t.id.train_target = "api" => t.pred = Yes
        /\ t.id.train_target = "response" => t.pred = Reply}

NextStale ==
    \/ /\ Len(example_ids) < MaxTurnsStale
       /\ \E t \in StaleTurns(example_ids) :
             Turn(t.id, CtxStd, Gold, "found", t.pred)
    \/ Finish

SpecStale == Init /\ [][NextStale]_vars

(***************************************************************************)
(* generate_with_seq2seq_model (validate.py 354-512).  Its locals have the *)
(* names of the dialogue function's and are held in the same variables:    *)
(* example_ids, answers, contexts, predictions, batch_size, output; turn   *)
(* holds the batch the loop is at, call the args of the run, generated the *)
(* calls of model.generate.  pc is "batches" while its loop runs.  The     *)
(* model computes no loss and no confidence features, original_order is    *)
(* None and no sentence was split for translation.                         *)
(*                                                                         *)
(* A sequence the model returns is written as the record of the example    *)
(* whose input produced it (of), the hyperparameter set (set) and its      *)
(* number among the outputs for that example (n); post-processing adds the *)
(* example id it was given (post).                                         *)
(***************************************************************************)
\* args.temperature and args.num_outputs, one entry per hyperparameter set
Seq2seqArgs ==
    UNION {[temperature : [1..n -> {0, 1}],
            num_outputs : [1..n -> 1..MaxOutputs]] : n \in 1..MaxSets}

\* the num_outputs passed to model.generate for set h (validate.py 412)
NumOutputsPassed(args, h) ==
    IF args.temperature[h] # 0 THEN args.num_outputs[h] ELSE 1

\* generated.sequences decoded: example-major, as many sequences for each
\* example as the num_outputs passed
Sequences(ids, h, passed) ==
    [i \in 1..(Len(ids) * passed) |->
        [of |-> ids[((i - 1) \div passed) + 1], set |-> h,
         n |-> ((i - 1) % passed) + 1]]

\* get_example_index(i), i counted from 0 (validate.py 450-451)
get_example_index(i, args, h, size) == (i \div args.num_outputs[h]) % size

\* partial_batch_prediction after post-processing (validate.py 448-457),
\* each entry with its index i counted from 0
Postprocessed(ids, args, h) ==
    LET seqs == Sequences(ids, h, NumOutputsPassed(args, h))
    IN  [j \in 1..Len(seqs) |->
            [i |-> j - 1, of |-> seqs[j].of, set |-> h, n |-> seqs[j].n,
             post |-> ids[get_example_index(j - 1, args, h, Len(ids)) + 1]]]

\* what the sets 1..h append to batch_prediction[e], e counted from 0
\* (validate.py 459-461)
RECURSIVE BatchPrediction(_, _, _, _)
BatchPrediction(ids, args, e, h) ==
    IF h = 0 THEN <<>>
    ELSE LET Mine(r) == get_example_index(r.i, args, h, Len(ids)) = e
             picked == SelectSeq(Postprocessed(ids, args, h), Mine)
         IN  BatchPrediction(ids, args, e, h - 1)
             \o [j \in 1..Len(picked) |->
                    [of |-> picked[j].of, set |-> picked[j].set,
                     n |-> picked[j].n, post |-> picked[j].post]]

\* the example ids of the next batch of size examples: "almond/<number>"
BatchIds(size) ==
    [i \in 1..size |-> [task |-> "almond", id |-> Len(example_ids) + i]]

InitSeq2seq ==
    /\ pc = "batches"
    /\ err = ""
    /\ output_predictions_only \in BOOLEAN
    /\ original_order = <<>>
    /\ turn = <<>>
    /\ batch_size = <<>>
    /\ example_ids = <<>>
    /\ contexts = <<>>
    /\ answers = <<>>
    /\ predictions = <<>>
    /\ cur_dial_id = ""
    /\ first_turn = TRUE
    /\ dialogue_state = EmptyMap
    /\ new_state_text = <<"null">>
    /\ active_api = <<>>
    /\ new_knowledge_text = <<>>
    /\ bitod_preds = EmptyMap
    /\ file = <<>>
    /\ output = <<>>
    /\ writes = <<>>
    /\ api_calls = <<>>
    /\ generated = <<>>
    /\ call \in {<<a>> : a \in Seq2seqArgs}
    /\ result = <<>>

\* one iteration of the loop over the batches (validate.py 385-464)
Seq2seqBatch(size) ==
    /\ pc = "batches"
    /\ LET ids == BatchIds(size)
           args == call[1]
           sets == Len(args.temperature)
       IN  /\ turn' = <<[example_id |-> ids,
                         context |-> [i \in 1..size |-> CtxStd],
                         answer |-> [i \in 1..size |-> Gold]]>>
           /\ batch_size' = <<size>>
           /\ example_ids' = example_ids \o ids
           /\ answers' = IF output_predictions_only THEN answers
                         ELSE answers \o [i \in 1..size |-> Gold]
           /\ contexts' = IF output_predictions_only THEN contexts
                          ELSE contexts \o [i \in 1..size |-> CtxStd]
           /\ generated' = generated \o
                  [h \in 1..sets |->
                      [k |-> Len(example_ids) + 1, set |-> h,
                       num_outputs |-> NumOutputsPassed(args, h)]]
           /\ predictions' = predictions \o
                  [e \in 1..size |-> BatchPrediction(ids, args, e - 1, sets)]
    /\ UNCHANGED <<pc, err, output_predictions_only, original_order,
                   cur_dial_id, first_turn, dialogue_state, new_state_text,
                   active_api, new_knowledge_text, bitod_preds, file, output,
                   writes, api_calls, call, result>>

\* the end of the input (validate.py 466-512)
Seq2seqFinish ==
    /\ pc = "batches"
    /\ output' = <<Output(example_ids, predictions, answers, contexts)>>
    /\ pc' = "returned"
    /\ UNCHANGED <<err, output_predictions_only, original_order, turn,
                   batch_size, example_ids, contexts, answers, predictions,
                   cur_dial_id, first_turn, dialogue_state, new_state_text,
                   active_api, new_knowledge_text, bitod_preds, file, writes,
                   api_calls, generated, call, result>>

NextSeq2seq ==
    \/ /\ Len(generated) < MaxBatches * Len(call[1].temperature)
       /\ \E size \in 1..MaxBatch : Seq2seqBatch(size)
    \/ Seq2seqFinish

SpecSeq2seq == InitSeq2seq /\ [][NextSeq2seq]_vars

(***************************************************************************)
(* The classification path: generate_with_classification_model            *)
(* (validate.py 515-583) and TransformerForTokenClassification.validate    *)
(* (transformer_token_classification.py 109-179), run one after the other  *)
(* on the same batches.  The first runs while pc is "classify", with its   *)
(* lists all_example_ids, all_answers, all_contexts and all_predictions in *)
(* example_ids, answers, contexts and predictions, its model calls in      *)
(* generated and its return value in output; call holds the batches the    *)
(* iterator has yielded.  The second runs while pc is "validate" on the    *)
(* batches of call, with its locals and its return value in result.        *)
(* original_order is None and the model is in evaluation mode.             *)
(*                                                                         *)
(* A batch holds, for each example, the row of gold label ids and the      *)
(* arg-max of the logits: a row of label ids of the same length when the   *)
(* logits have three dimensions (token classification), one label id when  *)
(* they have two (sequence classification, whose gold row has one entry).  *)
(* The loss of a forward pass is written 1.                                *)
(***************************************************************************)
\* numericalizer.answer_pad_id
answer_pad_id == -100

\* task.id2label
id2label == [l \in {0, 1} |-> IF l = 0 THEN "O" ELSE "B"]

\* the examples of a batch of token classification, as <<argmax, labels>>
TokenExamples ==
    {<<<<1, 0>>, <<answer_pad_id, 1>>>>,
     <<<<0, 1>>, <<0, 1>>>>,
     <<<<1, 1>>, <<answer_pad_id, answer_pad_id>>>>}

\* the examples of a batch of sequence classification
SequenceExamples == {<<1, <<0>>>>, <<0, <<answer_pad_id>>>>}

ClassSizes == {1, 2}

\* the batches the iterator may yield after n examples
ClassBatches(n) ==
    UNION {{[example_id |-> [i \in 1..size |-> [task |-> "ned", id |-> n + i]],
             context |-> [i \in 1..size |-> <<"w", SP, "w">>],
             argmax |-> [i \in 1..size |-> ex[i][1]],
             answer |-> [i \in 1..size |-> ex[i][2]],
             dim |-> dim] :
               ex \in [1..size -> IF dim = 3 THEN TokenExamples
                                  ELSE SequenceExamples]} :
           size \in ClassSizes, dim \in {2, 3}}

\* preds_list of validate.py 550-556 for one example: zip stops at the
\* shorter row, positions whose gold label is the padding id are skipped
RECURSIVE preds_list(_, _)
preds_list(pred, label) ==
    IF pred = <<>> \/ label = <<>> THEN <<>>
    ELSE IF label[1] = answer_pad_id THEN preds_list(Tail(pred), Tail(label))
    ELSE <<id2label[pred[1]]>> \o preds_list(Tail(pred), Tail(label))

\* labels_list of validate.py 550-557
RECURSIVE labels_list(_, _)
labels_list(pred, label) ==
    IF pred = <<>> \/ label = <<>> THEN <<>>
    ELSE IF label[1] = answer_pad_id THEN labels_list(Tail(pred), Tail(label))
    ELSE <<id2label[label[1]]>> \o labels_list(Tail(pred), Tail(label))

\* the arg-max rows, a single id wrapped in a list (validate.py 541-545)
ArgmaxRows(batch) ==
    IF batch.dim = 2
    THEN [i \in 1..Len(batch.argmax) |-> <<batch.argmax[i]>>]
    ELSE batch.argmax

\* processed_preds with the padding positions kept in the prediction
processed_predsKeepsPadding(batch) ==
    LET rows == ArgmaxRows(batch)
    IN  [i \in 1..Len(rows) |->
            <<Sp([j \in 1..Len(rows[i]) |-> id2label[rows[i][j]]])>>]

\* processed_preds (validate.py 548-559)
processed_preds(batch) ==
    LET rows == ArgmaxRows(batch)
    IN  [i \in 1..Len(rows) |-> <<Sp(preds_list(rows[i], batch.answer[i]))>>]

\* processed_labels (validate.py 548-560)
processed_labels(batch) ==
    LET rows == ArgmaxRows(batch)
    IN  [i \in 1..Len(rows) |-> Sp(labels_list(rows[i], batch.answer[i]))]

\* the same loops of TransformerForTokenClassification.validate
\* (transformer_token_classification.py 133-152)
RECURSIVE validate_preds_list(_, _)
validate_preds_list(pred, label) ==
    IF pred = <<>> \/ label = <<>> THEN <<>>
    ELSE IF label[1] = answer_pad_id
         THEN validate_preds_list(Tail(pred), Tail(label))
         ELSE <<id2label[pred[1]]>>
              \o validate_preds_list(Tail(pred), Tail(label))

RECURSIVE validate_labels_list(_, _)
validate_labels_list(pred, label) ==
    IF pred = <<>> \/ label = <<>> THEN <<>>
    ELSE IF label[1] = answer_pad_id
         THEN validate_labels_list(Tail(pred), Tail(label))
         ELSE <<id2label[label[1]]>>
              \o validate_labels_list(Tail(pred), Tail(label))

validate_ArgmaxRows(batch) ==
    IF batch.dim = 2
    THEN [i \in 1..Len(batch.argmax) |-> <<batch.argmax[i]>>]
    ELSE batch.argmax

validate_processed_preds(batch) ==
    LET rows == validate_ArgmaxRows(batch)
    IN  [i \in 1..Len(rows) |->
            <<Sp(validate_preds_list(rows[i], batch.answer[i]))>>]

validate_processed_labels(batch) ==
    LET rows == validate_ArgmaxRows(batch)
    IN  [i \in 1..Len(rows) |->
            Sp(validate_labels_list(rows[i], batch.answer[i]))]

\* the locals of validate before its loop (109-114), the batches it has
\* consumed counted in k
ValidateInit ==
    [k |-> 0, total_loss |-> 0, all_example_ids |-> <<>>, all_answers |-> <<>>,
     all_contexts |-> <<>>, all_predictions |-> <<>>, output |-> <<>>]

InitClass ==
    /\ pc = "classify"
    /\ err = ""
    /\ output_predictions_only = FALSE
    /\ original_order = <<>>
    /\ turn = <<>>
    /\ batch_size = <<>>
    /\ example_ids = <<>>
    /\ contexts = <<>>
    /\ answers = <<>>
    /\ predictions = <<>>
    /\ cur_dial_id = ""
    /\ first_turn = TRUE
    /\ dialogue_state = EmptyMap
    /\ new_state_text = <<"null">>
    /\ active_api = <<>>
    /\ new_knowledge_text = <<>>
    /\ bitod_preds = EmptyMap
    /\ file = <<>>
    /\ output = <<>>
    /\ writes = <<>>
    /\ api_calls = <<>>
    /\ generated = <<>>
    /\ call = <<>>
    /\ result = <<>>

\* one iteration of the loop of generate_with_classification_model
\* (validate.py 524-566)
ClassificationBatch(batch) ==
    /\ pc = "classify"
    /\ call' = Append(call, batch)
    /\ turn' = <<batch>>
    /\ example_ids' = example_ids \o batch.example_id
    /\ generated' = Append(generated, [k |-> Len(call) + 1, loss |-> 1])
    /\ contexts' = contexts \o batch.context
    /\ answers' = answers \o processed_labels(batch)
    /\ predictions' = predictions \o processed_preds(batch)
    /\ UNCHANGED <<pc, err, output_predictions_only, original_order,
                   batch_size, cur_dial_id, first_turn, dialogue_state,
                   new_state_text, active_api, new_knowledge_text, bitod_preds,
                   file, output, writes, api_calls, result>>

\* the end of its input (validate.py 568-583): the mean loss is the sum of
\* the losses over the number of examples, which raises when there is none
ClassificationFinish ==
    /\ pc = "classify"
    /\ IF example_ids = <<>>
       THEN /\ pc' = "raised"
            /\ err' = "ZeroDivisionError"
            /\ UNCHANGED <<output, result>>
       ELSE /\ output' = <<[loss |-> <<Len(generated), Len(example_ids)>>,
                            example_ids |-> example_ids,
                            contexts |-> contexts, answers |-> answers,
                            predictions |-> predictions]>>
            /\ result' = <<ValidateInit>>
            /\ pc' = "validate"
            /\ UNCHANGED err
    /\ UNCHANGED <<output_predictions_only, original_order, turn, batch_size,
                   example_ids, contexts, answers, predictions, cur_dial_id,
                   first_turn, dialogue_state, new_state_text, active_api,
                   new_knowledge_text, bitod_preds, file, writes, api_calls,
                   generated, call>>

\* one iteration of the loop of TransformerForTokenClassification.validate
\* (transformer_token_classification.py 116-158), on the next batch
ValidateBatch ==
    /\ pc = "validate"
    /\ result[1].k < Len(call)
    /\ LET batch == call[result[1].k + 1]
       IN  result' = <<[result[1] EXCEPT
               !.k = @ + 1,
               !.total_loss = @ + 1,
               !.all_example_ids = @ \o batch.example_id,
               !.all_contexts = @ \o batch.context,
               !.all_answers = @ \o validate_processed_labels(batch),
               !.all_predictions = @ \o validate_processed_preds(batch)]>>
    /\ UNCHANGED <<pc, err, output_predictions_only, original_order, turn,
                   batch_size, example_ids, contexts, answers, predictions,
                   cur_dial_id, first_turn, dialogue_state, new_state_text,
                   active_api, new_knowledge_text, bitod_preds, file, output,
                   writes, api_calls, generated, call>>

\* the end of its input (transformer_token_classification.py 160-179)
ValidateFinish ==
    /\ pc = "validate"
    /\ result[1].k = Len(call)
    /\ LET V == result[1]
       IN  result' = <<[V EXCEPT !.output =
               <<[loss |-> <<V.total_loss, Len(V.all_example_ids)>>,
                  example_ids |-> V.all_example_ids,
                  contexts |-> V.all_contexts, answers |-> V.all_answers,
                  predictions |-> V.all_predictions]>>]>>
    /\ pc' = "returned"
    /\ UNCHANGED <<err, output_predictions_only, original_order, turn,
                   batch_size, example_ids, contexts, answers, predictions,
                   cur_dial_id, first_turn, dialogue_state, new_state_text,
                   active_api, new_knowledge_text, bitod_preds, file, output,
                   writes, api_calls, generated, call>>

NextClass ==
    \/ /\ Len(call) < MaxBatches
       /\ \E batch \in ClassBatches(Len(example_ids)) :
             ClassificationBatch(batch)
    \/ ClassificationFinish
    \/ ValidateBatch
    \/ ValidateFinish

SpecClass == InitClass /\ [][NextClass]_vars

(***************************************************************************)
(* Vocabulary of the properties.                                           *)
(***************************************************************************)
\* the number of turns the iterator has yielded
K == Len(example_ids)

\* the example id of the turn the loop is at
CurId == turn[1].example_id

\* the fields the reporting structure holds, as <<dialogue, turn, field>>
Fields(bp) ==
    UNION {UNION {{<<d, t, f>> : f \in DOMAIN bp[d].turns[t]} :
                     t \in DOMAIN bp[d].turns} : d \in DOMAIN bp}

Val(bp, x) == bp[x[1]].turns[x[2]][x[3]]

\* bp2 is bp with field x holding v, and nothing else changed
OnlyFieldSet(bp, bp2, x, v) ==
    /\ DOMAIN bp2 = DOMAIN bp
    /\ Fields(bp2) = Fields(bp) \cup {x}
    /\ Val(bp2, x) = v
    /\ \A y \in Fields(bp) \ {x} : Val(bp2, y) = Val(bp, y)

\* model.generate was called in turn k
GeneratedIn(k) == \E i \in 1..Len(generated) : generated[i].k = k

\* the Knowledge API calls of turn k, as indices of api_calls
CallsIn(k) == {i \in 1..Len(api_calls) : api_calls[i].k = k}

\* a step that processes a turn
TurnStep == example_ids' # example_ids

ValidTargets == {"dst", "api", "response"}

\* a step of the loop: a turn is processed, or a batch fails the assertion
LoopStep ==
    \/ Len(example_ids') = Len(example_ids) + 1
    \/ batch_size' # batch_size

\* the step that ends the loop at the end of the input
EndOfInput == pc = "loop" /\ pc' # "loop" /\ ~LoopStep

\* list b is list a rearranged by p: b[i] = a[p[i]]
Rearranged(a, b, p) ==
    /\ Len(a) = Len(p)
    /\ b = [i \in 1..Len(p) |-> a[p[i]]]

\* a step of the loop that processes a turn (a batch of one example)
ProcessesTurn == LoopStep /\ batch_size' = <<1>>

\* the number of the turn that began the dialogue the loop is in
DialogueStart ==
    CHOOSE i \in 1..K :
        /\ i = 1 \/ example_ids[i].dial_id # example_ids[i - 1].dial_id
        /\ \A j \in (i + 1)..K :
              example_ids[j].dial_id = example_ids[j - 1].dial_id

\* the dialogue ids of a list of example ids
DialIds(ids) == {ids[i].dial_id : i \in 1..Len(ids)}

(***************************************************************************)
(* C1.  Whenever a turn starts a new dialogue, dialogue_state is empty,    *)
(* new_state_text is "null" and first_turn is true before the turn's       *)
(* context is built.  (The first turn of a dialogue changes neither        *)
(* dialogue_state nor new_state_text, so they are read after the turn.)    *)
(* The code never resets new_state_text: the formula is violated.          *)
(***************************************************************************)
C1_NewDialogueResets ==
    (turn # <<>> /\ first_turn) =>
        /\ dialogue_state = EmptyMap
        /\ new_state_text = <<"null">>

(***************************************************************************)
(* C3.  A non-first response turn whose decision is neither "yes" nor "no" *)
(* raises, and every piece of controller state is at the raise what it was *)
(* before the turn began.  Violated: the turn's example id, context and    *)
(* answer are appended and its api field is set to '' before the raise.    *)
(***************************************************************************)
\* the step processes a non-first response turn with a bad decision
BadDecisionStep ==
    /\ TurnStep
    /\ ~first_turn'
    /\ turn'[1].example_id.train_target = "response"
    /\ Strip(predictions[Len(predictions)][1]) \notin {Yes, No}

C3_NoMutationAtRaise ==
    [][BadDecisionStep =>
        /\ pc' = "raised"
        /\ err' = "ValueError"
        /\ UNCHANGED <<dialogue_state, new_state_text, active_api, bitod_preds,
                       example_ids, contexts, answers, predictions>>]_vars

(***************************************************************************)
(* C3, amended.  Such a turn raises with dialogue_state, new_state_text,   *)
(* active_api and predictions as they were before the turn; example_ids    *)
(* and contexts (and answers, unless output_predictions_only) have gained  *)
(* the turn's entry, and the turn's api field holds the empty string, the  *)
(* other Turn Record fields being unchanged.                               *)
(***************************************************************************)
C3_RaiseKeepsDialogueState ==
    [][BadDecisionStep =>
        LET t == turn'[1]
            id == t.example_id
        IN  /\ pc' = "raised"
            /\ err' = "ValueError"
            /\ UNCHANGED <<dialogue_state, new_state_text, active_api,
                           new_knowledge_text, predictions, generated,
                           api_calls, file>>
            /\ example_ids' = Append(example_ids, id)
            /\ contexts' = Append(contexts, t.context)
            /\ answers' = IF output_predictions_only THEN answers
                          ELSE Append(answers, t.answer)
            /\ OnlyFieldSet(bitod_preds, bitod_preds',
                            <<id.dial_id, id.turn_id, "api">>, <<>>)]_vars

\* reached: a bad decision has ended a run whose dialogue state is not empty
C3_Witness ==
    /\ pc = "raised"
    /\ err = "ValueError"
    /\ ~first_turn
    /\ CurId.train_target = "response"
    /\ dialogue_state # EmptyMap
    /\ Val(bitod_preds, <<CurId.dial_id, CurId.turn_id, "api">>) = <<>>

(***************************************************************************)
(* C4.  For every turn, the first turn of a dialogue included, a           *)
(* train_target outside dst, api, response raises and model.generate is    *)
(* not called for the turn.  Violated on the first turn of a dialogue.     *)
(***************************************************************************)
C4_EveryTurnValidated ==
    (turn # <<>> /\ CurId.train_target \notin ValidTargets) =>
        /\ pc = "raised"
        /\ err = "ValueError"
        /\ ~GeneratedIn(K)

(***************************************************************************)
(* C4, amended.  For every turn that is not the first turn of its          *)
(* dialogue, a train_target outside dst, api, response raises and          *)
(* model.generate is not called for the turn.                              *)
(***************************************************************************)
C4_NonFirstTurnValidated ==
    (turn # <<>> /\ ~first_turn /\ CurId.train_target \notin ValidTargets) =>
        /\ pc = "raised"
        /\ err = "ValueError"
        /\ ~GeneratedIn(K)

C4_Witness ==
    /\ turn # <<>>
    /\ ~first_turn
    /\ CurId.train_target = "nlg"
    /\ pc = "raised"
    /\ K >= 2

(***************************************************************************)
(* C6.  A non-first dst turn with turn id t of dialogue d sets             *)
(* bitod_preds[d].turns[t-1].response to the prediction of the turn        *)
(* processed immediately before it, and writes no other Turn Record field. *)
(***************************************************************************)
C6_DstRecordsPreviousPrediction ==
    [][(TurnStep /\ ~first_turn'
            /\ turn'[1].example_id.train_target = "dst") =>
        LET id == turn'[1].example_id
            x == <<id.dial_id, id.turn_id - 1, "response">>
            prev == predictions[Len(predictions)]
        IN  /\ Len(predictions) = Len(example_ids)
            /\ generated[Len(generated)].k = Len(example_ids)
            /\ OnlyFieldSet(bitod_preds, bitod_preds', x, prev)
            /\ writes' = Append(writes,
                   Wr(bitod_preds, Len(example_ids) + 1, x[1], x[2], x[3],
                      prev))]_vars

C6_Witness ==
    /\ turn # <<>>
    /\ ~first_turn
    /\ CurId.train_target = "dst"
    /\ pc = "loop"
    /\ Val(bitod_preds, <<CurId.dial_id, CurId.turn_id - 1, "response">>)
           = predictions[K - 1]
    /\ predictions[K - 1] # predictions[K]

(***************************************************************************)
(* C7.  In every non-first response turn whose decision is "yes" the       *)
(* Knowledge API is called exactly once, with the name of the API most     *)
(* recently touched by an api turn and the constraints derived from        *)
(* dialogue_state for that API.  Violated: no call is made when no api     *)
(* turn has bound active_api, or when active_api is not in dialogue_state. *)
(***************************************************************************)
C7_YesCallsApiOnce ==
    (/\ turn # <<>>
     /\ ~first_turn
     /\ CurId.train_target = "response"
     /\ Strip(predictions[K - 1][1]) = Yes) =>
        /\ Cardinality(CallsIn(K)) = 1
        /\ active_api # <<>>
        /\ active_api[1] \in DOMAIN dialogue_state
        /\ \A i \in CallsIn(K) :
              /\ api_calls[i].name = r_en_API_MAP_get(active_api[1])
              /\ api_calls[i].constraints =
                     <<state2api(dialogue_state[active_api[1]])>>

(***************************************************************************)
(* C5.  An api turn with parsed update U and prior state S leaves a state  *)
(* S2 with S2[a][s] = U[a][s] for every slot of U, S2[a][s] = S[a][s] for  *)
(* every slot of S that U does not hold, and no API or slot that is in     *)
(* neither S nor U.  Checked under SpecMerge.                              *)
(***************************************************************************)
C5_MergeKeepsUnrelatedSlots ==
    [][(TurnStep /\ ~first_turn'
            /\ turn'[1].example_id.train_target = "api") =>
        LET S == dialogue_state
            U == span2dict(Strip(predictions[Len(predictions)][1]), api_names)
            S2 == dialogue_state'
        IN  /\ \A a \in DOMAIN U :
                  /\ a \in DOMAIN S2
                  /\ \A s \in DOMAIN U[a] :
                        s \in DOMAIN S2[a] /\ S2[a][s] = U[a][s]
            /\ \A a \in DOMAIN S : \A s \in DOMAIN S[a] :
                  (a \notin DOMAIN U \/ s \notin DOMAIN U[a]) =>
                      /\ a \in DOMAIN S2
                      /\ s \in DOMAIN S2[a]
                      /\ S2[a][s] = S[a][s]
            /\ \A a \in DOMAIN S2 :
                  /\ a \in DOMAIN S \cup DOMAIN U
                  /\ \A s \in DOMAIN S2[a] :
                        \/ a \in DOMAIN S /\ s \in DOMAIN S[a]
                        \/ a \in DOMAIN U /\ s \in DOMAIN U[a]]_vars

\* reached: an api turn has added a slot to an API and kept its other slot
C5_Witness ==
    /\ turn # <<>>
    /\ ~first_turn
    /\ CurId.train_target = "api"
    /\ span2dict(Strip(predictions[K - 1][1]), api_names)
           = [a \in {Restaurants} |-> [s \in {"area"} |-> "north"]]
    /\ dialogue_state
           = [a \in {Restaurants} |->
                 [s \in {"price", "area"} |->
                     IF s = "price" THEN "cheap" ELSE "north"]]

(***************************************************************************)
(* C2.  In a response turn with decision "yes" whose Knowledge API call    *)
(* raises, the turn's api field is exactly the "No item available." text   *)
(* of the domain, the exception does not propagate, and the controller     *)
(* generates for the turn and goes on to the next.  Checked under          *)
(* SpecApiFailure; violated when the context has no <knowledge> span, or   *)
(* an empty one: replace_match then ends the run.                          *)
(***************************************************************************)
\* the Knowledge API was called in the turn the loop is at, and raised
ApiRaisedNow ==
    /\ turn # <<>>
    /\ CallsIn(K) # {}
    /\ \A i \in CallsIn(K) : api_calls[i].outcome = "raise"

C2_ApiFailureAbsorbed ==
    ApiRaisedNow =>
        /\ Val(bitod_preds, <<CurId.dial_id, CurId.turn_id, "api">>)
               = NoItemText(active_api[1][1])
        /\ pc # "raised"
        /\ GeneratedIn(K)

(***************************************************************************)
(* C2, amended.  In such a turn the api field is exactly the "No item      *)
(* available." text of the domain and the API's exception does not         *)
(* propagate; when the context holds a <knowledge> span and, after the     *)
(* knowledge text is spliced in, a <state> span, the controller generates  *)
(* for the turn and goes on to the next, and otherwise the run ends with   *)
(* replace_match's own error.                                              *)
(***************************************************************************)
\* both rewrites of a "yes" turn find their span
SpansFound(ctx, knowledge_text) ==
    /\ HasMatch(ctx, knowledge_re)
    /\ HasMatch(replace_match(ctx, knowledge_re, knowledge_text), state_re)

C2_ApiFailureAbsorbedIfSpans ==
    ApiRaisedNow =>
        LET text == NoItemText(active_api[1][1])
        IN  /\ Val(bitod_preds, <<CurId.dial_id, CurId.turn_id, "api">>) = text
            /\ new_knowledge_text = <<text>>
            /\ IF SpansFound(turn[1].context, text)
               THEN /\ pc # "raised"
                    /\ err = ""
                    /\ GeneratedIn(K)
                    /\ Len(predictions) = K
               ELSE /\ pc = "raised"
                    /\ err = "AttributeError"
                    /\ ~GeneratedIn(K)

\* reached: the API raised in an earlier turn, that turn generated, and
\* the loop has processed the turn after it
C2_Witness ==
    /\ pc = "loop"
    /\ \E i \in 1..Len(api_calls) :
          /\ api_calls[i].outcome = "raise"
          /\ api_calls[i].k = K - 1
          /\ GeneratedIn(K - 1)
          /\ Val(bitod_preds, <<example_ids[K - 1].dial_id,
                                example_ids[K - 1].turn_id, "api">>)
                 = NoItemText("restaurants")
    /\ GeneratedIn(K)

(***************************************************************************)
(* C8.  After a response turn with decision "yes", the text given to the   *)
(* model holds the turn's knowledge text in its <knowledge> span and       *)
(* new_state_text in its <state> span and is otherwise the turn's context, *)
(* for every context.  Checked under SpecSplice; violated when both spans  *)
(* hold the same text or the span text occurs again in the context,        *)
(* because replace_match replaces every occurrence of the captured text.   *)
(***************************************************************************)
\* a text with the content of its first span of the tag removed
Blank(t, tag) ==
    LET i == CHOOSE m \in MatchStarts(t, tag) :
                 \A n \in MatchStarts(t, tag) : m <= n
        stops == {j \in (i + 2)..Len(t) : t[j] \in LtSymbols}
        e == IF stops = {} THEN Len(t) + 1
             ELSE CHOOSE j \in stops : \A l \in stops : j <= l
    IN  SubSeq(t, 1, i + 1) \o SubSeq(t, e, Len(t))

OutsideSpans(t) == Blank(Blank(t, knowledge_re), state_re)

C8_SpansRewritten ==
    (/\ turn # <<>>
     /\ ~first_turn
     /\ CurId.train_target = "response"
     /\ Strip(predictions[K - 1][1]) = Yes
     /\ GeneratedIn(K)) =>
        LET text == generated[Len(generated)].text
            ctx == turn[1].context
        IN  /\ HasMatch(text, knowledge_re)
            /\ HasMatch(text, state_re)
            /\ Strip(Group1(text, knowledge_re))
                   = Val(bitod_preds, <<CurId.dial_id, CurId.turn_id, "api">>)
            /\ Strip(Group1(text, state_re)) = new_state_text
            /\ OutsideSpans(text) = OutsideSpans(ctx)

(***************************************************************************)
(* C9.  During one run no Turn Record field that already holds a value is  *)
(* assigned again with a different value.  Checked under SpecRecords;      *)
(* violated by a response turn with decision "yes", which assigns '' and   *)
(* then the knowledge text to its api field.                               *)
(***************************************************************************)
C9_FieldsAssignedOnce ==
    \A i \in 1..Len(writes) :
        writes[i].prior # <<>> => writes[i].prior[1] = writes[i].value

(***************************************************************************)
(* C9, amended.  During one run whose example ids are pairwise distinct, a *)
(* response or state field is assigned at most once, and an api field is   *)
(* assigned the empty string once and, when the turn's decision is "yes",  *)
(* at most once more, by the same turn, with the knowledge text.           *)
(***************************************************************************)
DistinctIds ==
    \A i, j \in 1..Len(example_ids) : i # j => example_ids[i] # example_ids[j]

C9_FieldsAssignedOncePerTurn ==
    DistinctIds =>
        \A i \in 1..Len(writes) :
            writes[i].prior # <<>> =>
                /\ writes[i].field = "api"
                /\ i > 1
                /\ writes[i - 1].k = writes[i].k
                /\ writes[i - 1].field = "api"
                /\ writes[i - 1].dial = writes[i].dial
                /\ writes[i - 1].turn = writes[i].turn
                /\ writes[i - 1].value = <<>>
                /\ writes[i - 1].prior = <<>>
                /\ example_ids[writes[i].k].train_target = "response"
                /\ Strip(predictions[writes[i].k - 1][1]) = Yes

\* reached: distinct example ids, and a "yes" turn has assigned its api
\* field twice
C9_Witness ==
    /\ DistinctIds
    /\ K >= 3
    /\ \E i \in 1..Len(writes) :
          /\ writes[i].prior = << <<>> >>
          /\ writes[i].field = "api"
          /\ writes[i].value # <<>>

(***************************************************************************)
(* C10.  Every Turn Record field written at some point of the run is still *)
(* present with the same value in the structure written at the end, also   *)
(* when a dialogue id appears again after turns of another dialogue.       *)
(* Checked under SpecReappear; violated: the reappearing dialogue id takes *)
(* the new-dialogue branch, which replaces its entry by an empty one.      *)
(***************************************************************************)
C10_RecordsNeverRetracted ==
    pc = "returned" =>
        \A i \in 1..Len(writes) :
            LET w == writes[i]
                x == <<w.dial, w.turn, w.field>>
            IN  /\ w.dial \in DOMAIN file[1]
                /\ x \in Fields(file[1])
                /\ Val(file[1], x) = w.value

(***************************************************************************)
(* C11.  bitod_preds is written to the file exactly once per run that      *)
(* reaches the end of the input, by the step that ends the loop and never  *)
(* again; what is written holds an entry for every dialogue id seen; and a *)
(* step of the loop that raises (AssertionError, ValueError,               *)
(* AttributeError) leaves the file unwritten, for good.  Checked under     *)
(* SpecRun.                                                                *)
(***************************************************************************)
\* what every step does to the file
FileDiscipline ==
    /\ file' # file =>
           /\ pc = "loop" /\ pc' # "loop"
           /\ ~LoopStep
           /\ file = <<>>
           /\ file' = <<bitod_preds>>
           /\ DOMAIN bitod_preds = DialIds(example_ids)
    /\ (LoopStep /\ pc' = "raised") => file' = <<>>
    /\ pc # "loop" => UNCHANGED <<pc, file>>
    /\ (pc = "loop" /\ pc' # "loop" /\ ~LoopStep) => file' # <<>>

C11_FileWrittenOnceAtEnd ==
    /\ [][FileDiscipline]_vars
    /\ [](pc = "returned" => file # <<>>)

\* reached: a run over two dialogues has returned, its file written
C11_Witness ==
    /\ pc = "returned"
    /\ K >= 2
    /\ file # <<>>
    /\ DOMAIN file[1] = {"d1", "d2"}

(***************************************************************************)
(* C12.  When original_order holds one distinct key per example and        *)
(* output_predictions_only is false, the function returns, and its         *)
(* example_ids, predictions, answers and contexts are the processed lists  *)
(* rearranged by one and the same permutation, the one that puts the keys  *)
(* of original_order in ascending order.  Checked under SpecOrder;         *)
(* violated by the run of no example, where the unpacking of the sorted    *)
(* columns raises ValueError.                                              *)
(***************************************************************************)
C12_SortedAndAligned ==
    [][(/\ EndOfInput
        /\ original_order # <<>>
        /\ ~output_predictions_only
        /\ original_order[1] \in Perms(Len(example_ids))) =>
           /\ pc' = "returned"
           /\ output' # <<>>
           /\ \E p \in Perms(Len(example_ids)) :
                 /\ \A i, j \in 1..Len(p) :
                       i < j => original_order[1][p[i]] < original_order[1][p[j]]
                 /\ Rearranged(example_ids, output'[1].example_ids, p)
                 /\ Rearranged(predictions, output'[1].predictions, p)
                 /\ Rearranged(answers, output'[1].answers, p)
                 /\ Rearranged(contexts, output'[1].contexts, p)]_vars

(***************************************************************************)
(* C13.  When output_predictions_only is true and original_order holds one *)
(* distinct key per example, the function returns with output.predictions  *)
(* holding one entry per processed example, in ascending original_order.   *)
(* Stated for the runs of at least one example.  Checked under SpecOrder;  *)
(* violated: answers is empty, the zip is empty and the unpacking raises.  *)
(***************************************************************************)
C13_PredictionsOnlySorted ==
    [][(/\ EndOfInput
        /\ original_order # <<>>
        /\ output_predictions_only
        /\ Len(example_ids) >= 1
        /\ original_order[1] \in Perms(Len(example_ids))) =>
           /\ pc' = "returned"
           /\ output' # <<>>
           /\ \E p \in Perms(Len(example_ids)) :
                 /\ \A i, j \in 1..Len(p) :
                       i < j => original_order[1][p[i]] < original_order[1][p[j]]
                 /\ Rearranged(predictions, output'[1].predictions, p)]_vars

(***************************************************************************)
(* C14.  For a text with exactly one occurrence of the span pattern,       *)
(* replace_match returns the text with every occurrence of the stripped    *)
(* captured text replaced and nothing else changed:                        *)
(*   - with the captured text itself as replacement, the text, also when   *)
(*     the captured text is empty;                                         *)
(*   - with a new text as replacement and a captured text that is not      *)
(*     empty, a text that holds the replacement, holds no occurrence of    *)
(*     the captured text, and turns back into the input when the captured  *)
(*     text is put back for the replacement;                               *)
(*   - with a new text as replacement and an empty captured text, the      *)
(*     input with the replacement before every symbol and at the end;      *)
(*   - with the empty replacement, the input shortened by whole            *)
(*     occurrences of the captured text.                                   *)
(* Checked under SpecReplace.                                              *)
(***************************************************************************)
\* the places where m occurs in t
Occurrences(t, m) ==
    {i \in 1..(Len(t) - Len(m) + 1) : SubSeq(t, i, i + Len(m) - 1) = m}

NotX(s) == s # "x"

C14_ReplacesCapturedText ==
    (/\ pc = "returned"
     /\ call # <<>>
     /\ Cardinality(MatchStarts(call[1].input, call[1].re_pattern)) = 1) =>
        LET t == call[1].input
            tag == call[1].re_pattern
            r == call[1].replacement
            m == Strip(Group1(t, tag))
            out == result[1]
        IN  /\ r = m => out = t
            /\ (IsNew(r) /\ m # <<>>) =>
                   /\ Occurrences(out, m) = {}
                   /\ Occurrences(out, r) # {}
                   /\ ReplaceAll(out, r, m) = t
            /\ (IsNew(r) /\ m = <<>>) =>
                   /\ Len(out) = Len(t) + Len(r) * (Len(t) + 1)
                   /\ r = <<"x">> => SelectSeq(out, NotX) = t
            /\ (r = <<>> /\ m # <<>>) =>
                   /\ Len(out) < Len(t)
                   /\ (Len(t) - Len(out)) % Len(m) = 0
                   /\ Occurrences(t, m) # {}

\* reached: a call has replaced a captured text that occurs twice in its
\* input
C14_Witness ==
    /\ pc = "returned"
    /\ call # <<>>
    /\ Cardinality(MatchStarts(call[1].input, call[1].re_pattern)) = 1
    /\ Strip(Group1(call[1].input, call[1].re_pattern)) = <<"b">>
    /\ Cardinality(Occurrences(call[1].input, <<"b">>)) = 2
    /\ call[1].replacement = <<"x", SP, "y">>
    /\ Cardinality(Occurrences(result[1], <<"x", SP, "y">>)) = 2

(***************************************************************************)
(* C15.  A turn that is not the first of its dialogue, whose train_target  *)
(* is dst or api and whose context has no <state> span, or whose           *)
(* train_target is response with decision "yes" and whose context has no   *)
(* <state> span or no <knowledge> span, ends the run with replace_match's  *)
(* error (AttributeError), and model.generate is not called for it.        *)
(* Checked under SpecNoSpan; violated by a "yes" turn when no api turn has *)
(* bound active_api: the turn dies with UnboundLocalError before it        *)
(* reaches replace_match.                                                  *)
(***************************************************************************)
\* the turn the loop is at is one of those the claim is about
SpanMissing ==
    /\ turn # <<>>
    /\ batch_size = <<1>>
    /\ ~first_turn
    /\ \/ /\ CurId.train_target \in {"dst", "api"}
          /\ ~HasMatch(turn[1].context, state_re)
       \/ /\ CurId.train_target = "response"
          /\ Strip(predictions[K - 1][1]) = Yes
          /\ \/ ~HasMatch(turn[1].context, state_re)
             \/ ~HasMatch(turn[1].context, knowledge_re)

C16_BadBatchChangesNothing ==
    [][(pc = "loop" /\ batch_size' # batch_size /\ batch_size' # <<1>>) =>
          /\ pc' = "raised"
          /\ err' = "AssertionError"
          /\ UNCHANGED <<example_ids, contexts, answers, predictions,
                         bitod_preds, dialogue_state, new_state_text,
                         active_api, new_knowledge_text, cur_dial_id,
                         first_turn, file, output, writes, api_calls,
                         generated>>]_vars

\* reached: a batch of two examples has ended a run that had processed
\* turns of two dialogues
C16_Witness ==
    /\ pc = "raised"
    /\ err = "AssertionError"
    /\ batch_size = <<2>>
    /\ K >= 2
    /\ DOMAIN bitod_preds = {"d1", "d2"}
    /\ Len(predictions) = K

(***************************************************************************)
(* C17.  The first turn of a dialogue resets dialogue_state to empty and   *)
(* leaves new_state_text unchanged; a dst turn and a response turn,        *)
(* whatever the decision and whether or not the Knowledge API fails, leave *)
(* dialogue_state and new_state_text unchanged; so dialogue_state is empty *)
(* as long as no api turn of the dialogue has run.  Checked under          *)
(* SpecFrame.                                                              *)
(***************************************************************************)
StateFrame ==
    ProcessesTurn =>
        /\ first_turn' =>
               dialogue_state' = EmptyMap /\ new_state_text' = new_state_text
        /\ (~first_turn'
                /\ turn'[1].example_id.train_target \in {"dst", "response"}) =>
               UNCHANGED <<dialogue_state, new_state_text>>

C17_StateChangedOnlyByApiTurn ==
    /\ [][StateFrame]_vars
    /\ []((/\ turn # <<>>
           /\ \A j \in (DialogueStart + 1)..K :
                 example_ids[j].train_target # "api") =>
              dialogue_state = EmptyMap)

\* reached: a response turn with decision "yes" whose API call failed has
\* left a dialogue state that is not empty as it was
C17_Witness ==
    /\ pc = "loop"
    /\ turn # <<>>
    /\ ~first_turn
    /\ CurId.train_target = "response"
    /\ \E i \in CallsIn(K) : api_calls[i].outcome = "raise"
    /\ dialogue_state # EmptyMap
    /\ new_state_text # <<"null">>

(***************************************************************************)
(* C18.  Every call of the Knowledge API is made by a response turn that   *)
(* is not the first of its dialogue and whose decision is "yes"; a         *)
(* response turn with decision "no" gives the model its context            *)
(* unmodified, calls no API, and leaves '' in its api field.  Checked      *)
(* under SpecFrame.                                                        *)
(***************************************************************************)
C18_ApiCalledOnlyOnYes ==
    /\ \A i \in 1..Len(api_calls) :
          LET k == api_calls[i].k
          IN  /\ k >= 2
              /\ example_ids[k].train_target = "response"
              /\ example_ids[k].dial_id = example_ids[k - 1].dial_id
              /\ Strip(predictions[k - 1][1]) = Yes
    /\ (/\ turn # <<>>
        /\ ~first_turn
        /\ CurId.train_target = "response"
        /\ Strip(predictions[K - 1][1]) = No) =>
           /\ pc # "raised"
           /\ generated[Len(generated)] = [k |-> K, text |-> turn[1].context]
           /\ CallsIn(K) = {}
           /\ Val(bitod_preds, <<CurId.dial_id, CurId.turn_id, "api">>) = <<>>

\* reached: a "no" turn has run while the state text differs from the one
\* in its context, after a "yes" turn that called the API
C18_Witness ==
    /\ pc = "loop"
    /\ turn # <<>>
    /\ ~first_turn
    /\ CurId.train_target = "response"
    /\ Strip(predictions[K - 1][1]) = No
    /\ new_state_text # Strip(Group1(turn[1].context, state_re))
    /\ generated[Len(generated)].text = turn[1].context

(***************************************************************************)
(* C20.  The first turn of a dialogue gives the model its context          *)
(* unmodified, calls no API, writes no Turn Record field, and leaves       *)
(* dialogue_state empty.  Checked under SpecFrame.                         *)
(***************************************************************************)
FirstTurnFrame ==
    (ProcessesTurn /\ first_turn') =>
        /\ pc' = "loop"
        /\ generated' = Append(generated, [k |-> Len(example_ids) + 1,
                                           text |-> turn'[1].context])
        /\ UNCHANGED <<api_calls, writes>>
        /\ dialogue_state' = EmptyMap
        /\ Fields(bitod_preds') \subseteq Fields(bitod_preds)
        /\ \A x \in Fields(bitod_preds') :
              Val(bitod_preds', x) = Val(bitod_preds, x)

C20_FirstTurnUnmodified == [][FirstTurnFrame]_vars

\* reached: a dialogue has begun with a response turn, after a "yes", while
\* the previous dialogue had a state
C20_Witness ==
    /\ pc = "loop"
    /\ turn # <<>>
    /\ first_turn
    /\ K >= 3
    /\ CurId.train_target = "response"
    /\ Strip(predictions[K - 1][1]) = Yes
    /\ new_state_text # <<"null">>
    /\ dialogue_state = EmptyMap
    /\ generated[Len(generated)] = [k |-> K, text |-> turn[1].context]

(***************************************************************************)
(* C19.  In a response turn with decision "yes" whose API call returns     *)
(* msg = (item, count), the knowledge text, which is also what the turn's  *)
(* api field records, is the "No item available." text of the active       *)
(* API's domain when count <= 0, and the codec's rendering of the returned *)
(* item under that domain when count > 0.  Checked under SpecSplice.       *)
(***************************************************************************)
C19_KnowledgeTextOfResult ==
    (/\ turn # <<>>
     /\ ~first_turn
     /\ CurId.train_target = "response"
     /\ Strip(predictions[K - 1][1]) = Yes) =>
        \A i \in CallsIn(K) :
            api_calls[i].outcome # "raise" =>
                LET domain == active_api[1][1]
                    item == Msg(api_calls[i].outcome)[1]
                    count == Msg(api_calls[i].outcome)[2]
                    text == IF count <= 0
                            THEN Sp(<<"(", domain, ")", "Message", "=", "No",
                                      "item", "available.">>)
                            ELSE knowledge2span(domain, item)
                IN  /\ domain = "restaurants"
                    /\ new_knowledge_text = <<text>>
                    /\ Val(bitod_preds,
                           <<CurId.dial_id, CurId.turn_id, "api">>) = text

\* reached: a "yes" turn whose call returned no item and a count of 0
C19_Witness ==
    /\ turn # <<>>
    /\ ~first_turn
    /\ K >= 2
    /\ CurId.train_target = "response"
    /\ \E i \in CallsIn(K) : api_calls[i].outcome = "none"
    /\ new_knowledge_text = <<NoItemText("restaurants")>>

(***************************************************************************)
(* C21.  After every api turn that has generated, new_state_text is the    *)
(* state codec's rendering of dialogue_state as the turn merged it, the    *)
(* <state> span of the text given to the model holds that text, and the    *)
(* state field of the turn's record is that dialogue_state under the       *)
(* canonical API names.  Checked under SpecCanon; violated by an api turn  *)
(* whose context has an empty state span: replace_match then puts the      *)
(* text before every character of the context and no <state> span is left. *)
(***************************************************************************)
C21_ApiTurnStateText ==
    (/\ turn # <<>>
     /\ CurId.train_target = "api"
     /\ GeneratedIn(K)) =>
        LET text == generated[Len(generated)].text
            rec == <<CurId.dial_id, CurId.turn_id, "state">>
        IN  /\ new_state_text = state2span(dialogue_state, required_slots)
            /\ HasMatch(text, state_re)
            /\ Strip(Group1(text, state_re)) = new_state_text
            /\ rec \in Fields(bitod_preds)
            /\ DOMAIN Val(bitod_preds, rec)
                   = {r_en_API_MAP_get(a) : a \in DOMAIN dialogue_state}
            /\ \A a \in DOMAIN dialogue_state :
                  Val(bitod_preds, rec)[r_en_API_MAP_get(a)] = dialogue_state[a]

(***************************************************************************)
(* C22.  An api turn that is not the first of its dialogue leaves every    *)
(* state field recorded under another turn id as it was, whatever the turn *)
(* adds to dialogue_state or overwrites in it; the state field of a record *)
(* keeps the value it was given.  Checked under SpecSnapshot.              *)
(***************************************************************************)
SnapshotFrame ==
    (/\ ProcessesTurn
     /\ ~first_turn'
     /\ turn'[1].example_id.train_target = "api") =>
        \A x \in Fields(bitod_preds) :
            (x[3] = "state" /\ x[2] # turn'[1].example_id.turn_id) =>
                /\ x \in Fields(bitod_preds')
                /\ Val(bitod_preds', x) = Val(bitod_preds, x)

C22_StateRecordIsSnapshot == [][SnapshotFrame]_vars

\* reached: the record of turn 1 holds the price an api turn recorded, and
\* a later api turn, recorded under turn 2, has changed the slots of that
\* API in dialogue_state
C22_Witness ==
    /\ pc = "loop"
    /\ K = 3
    /\ CurId.turn_id = 2
    /\ <<"d1", 1, "state">> \in Fields(bitod_preds)
    /\ <<"d1", 2, "state">> \in Fields(bitod_preds)
    /\ Val(bitod_preds, <<"d1", 1, "state">>)
           = [c \in {r_en_API_MAP_get(Restaurants)} |-> [s \in {"price"} |-> "cheap"]]
    /\ dialogue_state[Restaurants] # [s \in {"price"} |-> "cheap"]
    /\ Val(bitod_preds, <<"d1", 2, "state">>)
           = StateToRecord(dialogue_state)

(***************************************************************************)
(* C23.  A turn that is processed to its end appends its example id and    *)
(* its context to example_ids and contexts, one entry to predictions,      *)
(* its answer to answers unless output_predictions_only, and calls         *)
(* model.generate once; so, while the loop runs, the lists are as long as  *)
(* the number of turns yielded, entry k being the k-th turn's, every entry *)
(* of predictions is a list of one text, and generate has been called once *)
(* for each turn.  Checked under SpecCanon.                                *)
(***************************************************************************)
TurnAppends ==
    (ProcessesTurn /\ pc' = "loop") =>
        /\ example_ids' = Append(example_ids, turn'[1].example_id)
        /\ contexts' = Append(contexts, turn'[1].context)
        /\ Len(predictions') = Len(predictions) + 1
        /\ SubSeq(predictions', 1, Len(predictions)) = predictions
        /\ ~output_predictions_only =>
               answers' = Append(answers, turn'[1].answer)
        /\ Len(generated') = Len(generated) + 1
        /\ SubSeq(generated', 1, Len(generated)) = generated
        /\ generated'[Len(generated')].k = Len(example_ids')

ListsInStep ==
    pc = "loop" =>
        /\ Len(contexts) = K
        /\ Len(predictions) = K
        /\ ~output_predictions_only => Len(answers) = K
        /\ \A i \in 1..K : Len(predictions[i]) = 1
        /\ Len(generated) = K
        /\ \A i \in 1..K : generated[i].k = i

C23_ListsGrowTogether == [][TurnAppends]_vars /\ []ListsInStep

\* reached: three turns processed to the end, the last a response turn that
\* called the Knowledge API, with the answers kept
C23_Witness ==
    /\ pc = "loop"
    /\ K = 3
    /\ ~output_predictions_only
    /\ CurId.train_target = "response"
    /\ CallsIn(3) # {}
    /\ Len(predictions) = 3
    /\ Len(answers) = 3
    /\ Len(generated) = 3

(***************************************************************************)
(* C24.  When the run has returned, the prediction of every response turn  *)
(* is the response field of some Turn Record of the turn's dialogue in the *)
(* structure written to the file, the last response turn of a dialogue     *)
(* included.  Checked under SpecCanon; violated: the response field is     *)
(* written by the next dst turn of the same dialogue only, and no dst turn *)
(* follows the last response turn of a dialogue.                           *)
(***************************************************************************)
\* the prediction of turn k is a response field of the dialogue's records
ResponseRecorded(bp, k) ==
    \E x \in Fields(bp) :
        /\ x[1] = example_ids[k].dial_id
        /\ x[3] = "response"
        /\ Val(bp, x) = predictions[k]

C24_EveryResponseRecorded ==
    pc = "returned" =>
        \A k \in 1..K :
            example_ids[k].train_target = "response" =>
                ResponseRecorded(file[1], k)

(***************************************************************************)
(* C25.  In a response turn with decision "yes" that has generated, the    *)
(* Knowledge API was called in that turn, and the text the turn's api      *)
(* field records and the <knowledge> span of the text given to the model   *)
(* hold is the knowledge text of that call's result.  Checked under        *)
(* SpecStale; violated in a dialogue whose api turn merged nothing: the    *)
(* active API is the previous dialogue's, it is not in dialogue_state, the *)
(* call is skipped and the previous dialogue's knowledge text is used.     *)
(***************************************************************************)
C25_KnowledgeTextIsFresh ==
    (/\ turn # <<>>
     /\ ~first_turn
     /\ CurId.train_target = "response"
     /\ Strip(predictions[K - 1][1]) = Yes
     /\ GeneratedIn(K)) =>
        \E i \in CallsIn(K) :
            LET text == KnowledgeText(active_api[1], Msg(api_calls[i].outcome))
            IN  /\ Val(bitod_preds,
                       <<CurId.dial_id, CurId.turn_id, "api">>) = text
                /\ Strip(Group1(generated[Len(generated)].text,
                                knowledge_re)) = text

(***************************************************************************)
(* C26.  When the turns of every dialogue arrive contiguously in the       *)
(* canonical order, every turn that rewrites its state span (a dst or api  *)
(* turn that is not the first of its dialogue, a response turn with        *)
(* decision "yes") splices the rendering of the dialogue_state of its own  *)
(* dialogue: new_state_text is that rendering, the text given to the model *)
(* is the context with that rendering put in by replace_match, and, when   *)
(* the state span of the context holds a text, the state span of the text  *)
(* given to the model holds that rendering.  Checked under SpecCanon.      *)
(***************************************************************************)
\* the turn the loop is at rewrites the state span of its context
SplicesState ==
    /\ ~first_turn
    /\ \/ CurId.train_target \in {"dst", "api"}
       \/ /\ CurId.train_target = "response"
          /\ Strip(predictions[K - 1][1]) = Yes

C26_OwnStateTextSpliced ==
    (turn # <<>> /\ GeneratedIn(K) /\ SplicesState) =>
        LET own == state2span(dialogue_state, required_slots)
            text == generated[Len(generated)].text
            ctx == turn[1].context
            base == IF CurId.train_target = "response"
                    THEN replace_match(ctx, knowledge_re,
                             Val(bitod_preds,
                                 <<CurId.dial_id, CurId.turn_id, "api">>))
                    ELSE ctx
        IN  /\ new_state_text = own
            /\ text = replace_match(base, state_re, own)
            /\ Strip(Group1(ctx, state_re)) # <<>> =>
                   Strip(Group1(text, state_re)) = own

\* reached: the second dialogue has rewritten a state span with the
\* rendering of its own state, which is not the text the first dialogue
\* spliced
C26_Witness ==
    /\ pc = "loop"
    /\ K = 4
    /\ example_ids[2].dial_id = "d1"
    /\ example_ids[2].train_target = "api"
    /\ CurId.dial_id = "d2"
    /\ CurId.train_target = "api"
    /\ Len(generated) = 4
    /\ contexts[2] = CtxStd
    /\ contexts[4] = CtxStd
    /\ Strip(Group1(generated[4].text, state_re))
           = state2span(dialogue_state, required_slots)
    /\ Strip(Group1(generated[2].text, state_re))
           # Strip(Group1(generated[4].text, state_re))
    /\ Strip(Group1(generated[2].text, state_re)) # <<"null">>

(***************************************************************************)
(* C27.  In generate_with_seq2seq_model every example of a batch gets the  *)
(* same number of predictions, one for each sequence the model returned    *)
(* for it, and every prediction is post-processed with the id of, and      *)
(* listed under, the example whose input produced it; the output holds the *)
(* lists so built.  Checked under SpecSeq2seq; violated with temperature 0 *)
(* and a configured num_outputs of 2: the model is asked for one sequence  *)
(* per example but get_example_index divides by 2.                         *)
(***************************************************************************)
C27_PredictionsAttributed ==
    /\ Len(predictions) = Len(example_ids)
    /\ \A p \in 1..Len(predictions) :
          /\ \A j \in 1..Len(predictions[p]) :
                /\ predictions[p][j].of = example_ids[p]
                /\ predictions[p][j].post = example_ids[p]
          /\ \A q \in 1..Len(predictions) :
                Len(predictions[p]) = Len(predictions[q])
    /\ pc = "returned" => output[1].predictions = predictions

(***************************************************************************)
(* C28.  In the classification path the prediction and the answer of every *)
(* example hold one label token for each position whose gold label is not  *)
(* the padding id, in position order: the label of the arg-max there in    *)
(* the prediction, the gold label in the answer; and, given the same       *)
(* batches, TransformerForTokenClassification.validate returns what        *)
(* generate_with_classification_model returned.  Checked under SpecClass.  *)
(***************************************************************************)
\* the examples of a list of batches, each as <<arg-max row, gold row>>
RECURSIVE Rows(_)
Rows(bs) ==
    IF bs = <<>> THEN <<>>
    ELSE [i \in 1..Len(bs[1].answer) |->
             <<IF bs[1].dim = 2 THEN <<bs[1].argmax[i]>> ELSE bs[1].argmax[i],
               bs[1].answer[i]>>]
         \o Rows(Tail(bs))

\* the positions of a gold row that are not padding
NonPadding(label) == {j \in 1..Len(label) : label[j] # answer_pad_id}

\* the m-th smallest element of a set of numbers
Nth(S, m) == CHOOSE j \in S : Cardinality({i \in S : i < j}) = m - 1

\* the whitespace-separated tokens of a text
Tokens(text) == SelectSeq(text, NotSpace)

C28_PaddingDroppedFromBoth ==
    /\ pc \in {"classify", "validate", "returned"} =>
          /\ Len(predictions) = Len(Rows(call))
          /\ Len(answers) = Len(Rows(call))
          /\ \A p \in 1..Len(Rows(call)) :
                LET pred == Rows(call)[p][1]
                    label == Rows(call)[p][2]
                    kept == NonPadding(label)
                IN  /\ Len(predictions[p]) = 1
                    /\ Len(Tokens(predictions[p][1])) = Cardinality(kept)
                    /\ Len(Tokens(answers[p])) = Cardinality(kept)
                    /\ \A m \in 1..Cardinality(kept) :
                          /\ Tokens(predictions[p][1])[m]
                                 = id2label[pred[Nth(kept, m)]]
                          /\ Tokens(answers[p])[m]
                                 = id2label[label[Nth(kept, m)]]
    /\ pc = "returned" => result[1].output = output

\* reached: both functions have returned, after a batch of sequence
\* classification and a batch of token classification one of whose
\* examples lost its first position and another every position
C28_Witness ==
    /\ pc = "returned"
    /\ Len(call) = 2
    /\ call[1].dim = 2
    /\ call[2].dim = 3
    /\ Len(call[2].answer) = 2
    /\ call[2].answer[1] = <<answer_pad_id, 1>>
    /\ call[2].answer[2] = <<answer_pad_id, answer_pad_id>>
    /\ predictions[Len(predictions) - 1] = << <<"O">> >>
    /\ predictions[Len(predictions)] = << <<>> >>
    /\ answers[Len(answers)] = <<>>
    /\ result[1].output = output

=============================================================================
